---- MODULE Spec2Model ----
(***************************************************************************)
(* Model of the attachment orchestrator of the reconciliation project      *)
(* (document_processing/utils/attachment_processor.py) together with the   *)
(* remote file classifier it drives (utils/file_classifier.py).            *)
(*                                                                         *)
(* One batch call (process_from_excel_file or process_single_grn) is run   *)
(* at a time; inside a batch every attachment goes through the steps of    *)
(* the code: existence check, download, content analysis, dispatch,        *)
(* extraction, record save, line item creation, commit, temp file cleanup  *)
(* and return.                                                             *)
(*                                                                         *)
(* Environment.  The outcomes the environment decides are: the format and  *)
(* content of the downloaded file, whether the extraction pipeline raises, *)
(* what it extracts, whether saving the completed record raises and        *)
(* whether building the line items raises.  The store answers existence    *)
(* queries and accepts failure records, and a temporary file can be        *)
(* unlinked.                                                               *)
(***************************************************************************)
EXTENDS Integers, Sequences, FiniteSets, TLC

None == "none"

\* ------------------------------------------------------------------ bounds
MaxRuns  == 2      \* batch calls in one behaviour
MaxStore == 4      \* InvoiceData rows the store has room for
MaxLimit == 2      \* largest process_limit a caller passes
MaxItems == 2      \* line items in the larger extracted document
MaxSheetRows == 2  \* rows of a sheet handed to the attachment listing

\* ------------------------------------------------------- program constants
NumSlots == 5      \* attachment_1 .. attachment_5

Slots == 1..NumSlots

\* str(i) of a slot number, as stored in InvoiceData.attachment_number
SlotStr(i) == CASE i = 1 -> "1" [] i = 2 -> "2" [] i = 3 -> "3"
                [] i = 4 -> "4" [] i = 5 -> "5" [] OTHER -> "?"

\* Messages written by the orchestrator and its collaborators.
MsgPdfImageRecord == "Image-based PDF processing not enabled yet. This PDF contains scanned images and needs OCR."
MsgImageRecord    == "Image file processing not enabled yet. This file needs OCR processing."
MsgPdfImageRaise  == "Image-based PDF - OCR processing not enabled yet"
MsgImageRaise     == "Image file - OCR processing not enabled yet"
MsgPdfImageResult == "Image-based PDF processing not enabled yet"
MsgImageResult    == "Image file processing not enabled yet"
MsgAnalyzing      == "Error analyzing file"
MsgExtraction     == "Failed to process invoice"
MsgSave           == "record save failed"
MsgNoUrls         == "No attachment URLs found in the uploaded file."

\* ------------------------------------------------------------------ inputs
NoAtt == <<None, None, None, None, None>>

\* Uploaded spreadsheets: rows of (po_no, attachment_1..attachment_5).
Sheets ==
  [ A |-> << [po_no |-> "PO1", att |-> [NoAtt EXCEPT ![1] = "u1", ![2] = "u2"]] >>,
    B |-> << [po_no |-> "PO1", att |-> [NoAtt EXCEPT ![2] = "u2"]],
             [po_no |-> None,  att |-> [NoAtt EXCEPT ![3] = "u1"]],
             [po_no |-> "PO1", att |-> [NoAtt EXCEPT ![1] = "u1", ![2] = "u2"]] >>,
    E |-> << [po_no |-> "PO3", att |-> NoAtt] >> ]

SheetNames == DOMAIN Sheets

\* ItemWiseGrn rows, by id.
GrnTable ==
  [ g \in 1..2 |->
      IF g = 1 THEN [po_no |-> "PO1", att |-> [NoAtt EXCEPT ![1] = "u1", ![2] = "u2"]]
               ELSE [po_no |-> "PO2", att |-> [NoAtt EXCEPT ![1] = "u2"]] ]

GrnIds == DOMAIN GrnTable

\* What the extraction pipeline returns for the text PDF behind a URL.
ExtractedDoc(url) ==
  IF url = "u1" THEN [vendor_name |-> "V1", invoice_number |-> "I1", items |-> 0]
                ELSE [vendor_name |-> "V2", invoice_number |-> "I2", items |-> MaxItems]

NoData == [vendor_name |-> None, invoice_number |-> None, items |-> 0]

\* Formats the downloaded bytes can turn out to have (None: no format matched
\* or the request failed).
FetchedFormats == {"PDF", "JPEG", None}

Min(a, b) == IF a < b THEN a ELSE b

\* ------------------------------------------------------ attachment listing
\* Cell texts: "u1" and "u2" stand for two URLs that start with http:// or
\* https://, "x1" for a non-empty cell text that starts with neither.
HttpUrls == {"u1", "u2"}

\* clean_url.startswith(('http://', 'https://'))
IsHttp(url) == url \in HttpUrls

\* _extract_attachments_from_file, lines 201-231: every non-empty slot of
\* every row that has a PO number, in row order then slot order.
RECURSIVE SlotAttachments(_, _, _)
SlotAttachments(row, rowNo, i) ==
  IF i > NumSlots THEN <<>>
  ELSE (IF row.att[i] # None /\ IsHttp(row.att[i])
          THEN << [url |-> row.att[i], po_number |-> row.po_no,
                   attachment_number |-> i, row_number |-> rowNo] >>
          ELSE <<>>)
       \o SlotAttachments(row, rowNo, i + 1)

RECURSIVE AllAttachments(_, _)
AllAttachments(rows, r) ==
  IF r > Len(rows) THEN <<>>
  ELSE (IF rows[r].po_no = None THEN <<>> ELSE SlotAttachments(rows[r], r, 1))
       \o AllAttachments(rows, r + 1)

\* Variant: nothing is recorded as seen, every occurrence is kept.
UniqueAttachments_keepAll(all, k, seen) == all

\* lines 233-240: keep the first occurrence of every URL.
RECURSIVE UniqueAttachments(_, _, _)
UniqueAttachments(all, k, seen) ==
  IF k > Len(all) THEN <<>>
  ELSE IF all[k].url \in seen THEN UniqueAttachments(all, k + 1, seen)
       ELSE <<all[k]>> \o UniqueAttachments(all, k + 1, seen \cup {all[k].url})

ExtractAttachments(rows) == UniqueAttachments(AllAttachments(rows, 1), 1, {})

\* _process_grn_attachments, lines 548-551: the non-empty slots of a GRN row.
RECURSIVE GrnAttachments(_, _)
GrnAttachments(g, i) ==
  IF i > NumSlots THEN <<>>
  ELSE (IF GrnTable[g].att[i] # None
          THEN << [url |-> GrnTable[g].att[i], po_number |-> None,
                   attachment_number |-> i, row_number |-> g] >>
          ELSE <<>>)
       \o GrnAttachments(g, i + 1)

\* -------------------------------------------------------------- the store
\* InvoiceData.objects.filter(attachment_url=url).first()
\* .first() of an empty query set: no row (ids of rows start at 1).
NoRecord ==
  [ id |-> 0, attachment_url |-> None, attachment_number |-> None, po_number |-> None,
    file_type |-> None, original_file_extension |-> None, processing_status |-> None,
    error_message |-> None, vendor_name |-> None, invoice_number |-> None ]

Found(r) == r.id # 0

\* .filter(<field>=value).first(): the row with the smallest id that matches.
RECURSIVE FirstMatch(_, _, _, _)
FirstMatch(s, field, value, k) ==
  IF k > Len(s) THEN NoRecord
  ELSE IF s[k][field] = value THEN s[k] ELSE FirstMatch(s, field, value, k + 1)

\* InvoiceData.objects.filter(attachment_url=attachment_info['url']).first()
ExistingByUrl(s, url) == FirstMatch(s, "attachment_url", url, 1)

\* InvoiceData.objects.filter(attachment_number=str(i)).first()
ExistingBySlot(s, i) == FirstMatch(s, "attachment_number", SlotStr(i), 1)

\* An InvoiceData row.  po_number is set in spreadsheet mode only; the GRN
\* mode constructors pass no source reference at all.
InvoiceRecord(id, info, po, ftype, ext, status, msg, vendor, invno) ==
  [ id |-> id,
    attachment_url |-> info.url,
    attachment_number |-> SlotStr(info.attachment_number),
    po_number |-> po,
    file_type |-> ftype,
    original_file_extension |-> ext,
    processing_status |-> status,
    error_message |-> msg,
    vendor_name |-> vendor,
    invoice_number |-> invno ]

\* file_type=file_type or 'unknown'
OrUnknown(ftype) == IF ftype = None THEN "unknown" ELSE ftype

\* The record built by _save_error_record_direct (spreadsheet mode).
ErrorRecordDirect(id, info, msg, ftype, ext) ==
  InvoiceRecord(id, info, info.po_number, OrUnknown(ftype), ext, "failed", msg, None, None)

\* The record built by _save_error_record (GRN mode).
ErrorRecordGrn(id, info, msg, ftype, ext) ==
  InvoiceRecord(id, info, None, OrUnknown(ftype), ext, "failed", msg, None, None)

\* The record built by _save_extracted_data_direct / _save_extracted_data.
CompletedRecord(id, md, info, c, d) ==
  InvoiceRecord(id, info, IF md = "excel" THEN info.po_number ELSE None,
                c.file_type, c.original_extension, "completed", None,
                d.vendor_name, d.invoice_number)

\* Variant: the failure record is dropped instead of being written.
SaveErrorRecord_lost(s, rec) == s

\* invoice_data.save() of a failure record: one more row, nothing else touched.
SaveErrorRecord(s, rec) == Append(s, rec)

\* The InvoiceItemData rows bulk_create writes for one invoice.
ItemRows(invoiceId, n) == { [invoice_id |-> invoiceId, item_sequence |-> k] : k \in 1..n }

\* ------------------------------------------------------------ orchestrator
\* Variant: the existence check never short-circuits.
GateHit_never(forceFlag, existing) == FALSE

\* if not force_reprocess: existing = ...; if existing:
GateHit(forceFlag, existing) == ~forceFlag /\ Found(existing)

\* _process_grn_attachments: if existing:
GrnGateHit(existing) == Found(existing)

\* Variant: image-based PDFs are sent to the text extraction as well.
DispatchTarget_pdfAll(ftype) ==
  CASE ftype \in {"pdf_text", "pdf_image"} -> "extract"
    [] ftype = "image" -> "ocr_stub"
    [] OTHER -> "unsupported"

\* The if / elif chain on file_type.
DispatchTarget(ftype) ==
  CASE ftype = "pdf_text" -> "extract"
    [] ftype \in {"pdf_image", "image"} -> "ocr_stub"
    [] OTHER -> "unsupported"

\* Variant: the temporary file is left on disk.
CleanupTempFile_leak(files, t) == files

\* cleanup_temp_file / os.unlink
CleanupTempFile(files, t) == files \ {t}

\* File type and extension written by the handler of an exception raised
\* after classification: spreadsheet mode, then GRN mode.
DirectErrorFileType(c) == "unknown"
DirectErrorExtension(c) == None
GrnErrorFileType(c) == c.file_type
GrnErrorExtension(c) == c.original_extension

ExtensionOf(fmt) == IF fmt = "PDF" THEN ".pdf" ELSE IF fmt = "JPEG" THEN ".jpg" ELSE ".png"

OcrRecordMsg(ftype) == IF ftype = "pdf_image" THEN MsgPdfImageRecord ELSE MsgImageRecord
OcrRaiseMsg(ftype)  == IF ftype = "pdf_image" THEN MsgPdfImageRaise ELSE MsgImageRaise
OcrResultMsg(ftype) == IF ftype = "pdf_image" THEN MsgPdfImageResult ELSE MsgImageResult

NoCls == [success |-> FALSE, temp_file_path |-> None, original_extension |-> None,
          detected_format |-> None, file_type |-> "unknown", error |-> None]
NoTxn == [open |-> FALSE, rec |-> None, items |-> {}]
NoPending == [kind |-> None, msg |-> None]
NoBatch == [returned |-> FALSE]

ResultEntry(info, ok, status, invoiceId, vendor, invno, ftype, err) ==
  [ url |-> info.url, attachment |-> SlotStr(info.attachment_number),
    success |-> ok, status |-> status, invoice_id |-> invoiceId,
    vendor_name |-> vendor, invoice_number |-> invno,
    file_type |-> ftype, error |-> err ]

\* Variant: the short-cut result does not carry the fields of the existing row.
AlreadyProcessed_blank(info, existing) ==
  ResultEntry(info, TRUE, "already_processed", 0, None, None, None, None)

\* Variant: the short cut reports the skipped attachment as a failure.
AlreadyProcessed_failed(info, existing) ==
  ResultEntry(info, FALSE, "already_processed", existing.id,
              existing.vendor_name, existing.invoice_number, None, None)

\* The result appended by the already_processed short cut.
AlreadyProcessed(info, existing) ==
  ResultEntry(info, TRUE, "already_processed", existing.id,
              existing.vendor_name, existing.invoice_number, None, None)

VARIABLES
  store,       \* committed InvoiceData rows, in id order
  itemStore,   \* committed InvoiceItemData rows
  tempFiles,   \* temporary files on disk
  run,         \* number of batch calls started
  mode,        \* "excel" | "grn": which entry point the current batch runs
  force,       \* force_reprocess of the current batch
  key,         \* input of the current batch: mode, sheet or GRN id
  total,       \* len(attachment_data)
  atts,        \* attachments_to_process
  idx,         \* position of the loop in atts
  pc,          \* position inside the batch
  cls,         \* classification of the current attachment
  data,        \* extracted_data of the current attachment
  txn,         \* writes of the open transaction.atomic() block
  pending,     \* how the current attachment leaves its try block
  results,     \* processing_results / results
  succ,        \* successful_extractions
  failed,      \* failed_extractions
  lastBatch,   \* value returned by the last batch call
  madeBy,      \* history: for every row of store, the batch that wrote it
  audit,       \* history: per attachment of the current batch, what happened
  cur,         \* history: audit entry of the attachment in progress
  prevList,    \* history: mode and URL list of the previous batch
  runStart,    \* history: Len(store) when the current batch started
  extractLog,  \* history: file types handed to the extraction pipeline
  call,        \* history: the last call of an entry point or helper, with its input and result
  invoice_schema,  \* InvoicePDFProcessor.invoice_schema of the processor instance
  requests     \* the batch requests running side by side, each with its position

vars == << store, itemStore, tempFiles, run, mode, force, key, total, atts, idx,
           pc, cls, data, txn, pending, results, succ, failed, lastBatch,
           madeBy, audit, cur, prevList, runStart, extractLog, call,
           invoice_schema, requests >>

\* The state of one sequential batch.
progBatch == << store, itemStore, tempFiles, run, mode, force, key, total, atts, idx,
               pc, cls, data, txn, pending, results, succ, failed, lastBatch,
               madeBy, audit, cur, prevList, runStart, extractLog >>

\* What a step of one sequential batch leaves alone.
besideBatch == << call, invoice_schema, requests >>

batchVars == << run, mode, force, key, total, atts, prevList, runStart >>

NoKey == [mode |-> None, src |-> None]
NoList == [mode |-> None, urls |-> <<>>]
CurList == [mode |-> mode, urls |-> [i \in 1..Len(atts) |-> atts[i].url]]
NoCur == [prior |-> NoRecord, startLen |-> 0, endLen |-> 0, downloaded |-> FALSE, fate |-> None,
          file_type |-> None, extension |-> None, classified |-> FALSE, error |-> None]

\* No helper has been called.
NoCall == [op |-> None]

\* No InvoicePDFProcessor has been constructed; no request is running.
NoSchema == [constructed |-> FALSE]
NoRequests == << >>

Init ==
  /\ store = <<>> /\ itemStore = {} /\ tempFiles = {}
  /\ run = 0 /\ mode = None /\ force = FALSE /\ key = NoKey
  /\ total = 0 /\ atts = <<>> /\ idx = 1 /\ pc = "idle"
  /\ cls = NoCls /\ data = NoData /\ txn = NoTxn /\ pending = NoPending
  /\ results = <<>> /\ succ = 0 /\ failed = 0 /\ lastBatch = NoBatch
  /\ madeBy = <<>> /\ audit = <<>> /\ cur = NoCur
  /\ prevList = NoList /\ runStart = 0 /\ extractLog = {}
  /\ call = NoCall
  /\ invoice_schema = NoSchema
  /\ requests = NoRequests

Tag == [mode |-> mode, src |-> key.src]


\* ------------------------------------------------------------------ actions
\* Rows a batch can write at most: one per attachment it does not skip in
\* spreadsheet mode, two in GRN mode.
Ungated(list, md, f) ==
  { i \in 1..Len(list) :
      IF md = "excel" THEN ~GateHit(f, ExistingByUrl(store, list[i].url))
                      ELSE ~GrnGateHit(ExistingBySlot(store, list[i].attachment_number)) }

HasRoom(list, md, f) ==
  Len(store) + (IF md = "excel" THEN 1 ELSE 2) * Cardinality(Ungated(list, md, f)) <= MaxStore

ResetAttachment ==
  /\ cls' = NoCls /\ data' = NoData /\ txn' = NoTxn /\ pending' = NoPending

\* Variant: the list is not truncated.
AttachmentsToProcess_all(found, l) == found

\* attachments_to_process = attachment_data[:process_limit], process_limit >= 0
AttachmentsToProcess(found, l) == SubSeq(found, 1, Min(l, Len(found)))

\* process_from_excel_file, lines 43-64: list the attachments, return at once
\* when there are none, otherwise truncate to process_limit and enter the loop.
BeginExcel(s, l, f) ==
  /\ pc = "idle" /\ run < MaxRuns
  /\ LET found == ExtractAttachments(Sheets[s]) IN
       /\ HasRoom(AttachmentsToProcess(found, l), "excel", f)
       /\ run' = run + 1 /\ mode' = "excel" /\ force' = f
       /\ prevList' = CurList /\ key' = [mode |-> "excel", src |-> s]
       /\ runStart' = Len(store)
       /\ results' = <<>> /\ succ' = 0 /\ failed' = 0 /\ idx' = 1
       /\ audit' = <<>> /\ cur' = NoCur
       /\ IF found = <<>>
            THEN /\ atts' = <<>> /\ total' = 0 /\ pc' = "idle"
                 /\ lastBatch' = [returned |-> TRUE, raised |-> FALSE, success |-> FALSE,
                                  error |-> MsgNoUrls, total_found |-> 0, processed |-> 0,
                                  successful |-> 0, failed |-> 0, results |-> <<>>]
            ELSE /\ atts' = AttachmentsToProcess(found, l)
                 /\ total' = Len(found) /\ pc' = "loop"
                 /\ lastBatch' = NoBatch
  /\ ResetAttachment
  /\ UNCHANGED << store, itemStore, tempFiles, madeBy, extractLog >>

\* A batch call of the spreadsheet entry point.
StartExcel(s, l, f) == BeginExcel(s, l, f) /\ UNCHANGED besideBatch

\* process_single_grn / _process_grn_attachments, lines 534-551, called for a
\* request whose body carries force_reprocess = f: the flag stays in the view
\* (attachment_api_views.py, lines 38 and 69), process_single_grn has no such
\* parameter.
BeginGrn(g, f) ==
  /\ pc = "idle" /\ run < MaxRuns
  /\ HasRoom(GrnAttachments(g, 1), "grn", FALSE)
  /\ run' = run + 1 /\ mode' = "grn" /\ force' = f
  /\ prevList' = CurList /\ key' = [mode |-> "grn", src |-> g]
  /\ runStart' = Len(store)
  /\ results' = <<>> /\ succ' = 0 /\ failed' = 0 /\ idx' = 1
  /\ audit' = <<>> /\ cur' = NoCur
  /\ atts' = GrnAttachments(g, 1) /\ total' = Len(atts')
  /\ pc' = "loop" /\ lastBatch' = NoBatch
  /\ ResetAttachment
  /\ UNCHANGED << store, itemStore, tempFiles, madeBy, extractLog >>
  /\ UNCHANGED besideBatch

\* A GRN batch of a request without force_reprocess.
StartGrn(g) == BeginGrn(g, FALSE)

\* Lines 70-90 of the spreadsheet loop: the existence check and its
\* already_processed short cut.
CheckExcel ==
  /\ pc = "loop" /\ mode = "excel" /\ idx <= Len(atts)
  /\ LET info == atts[idx]
         existing == ExistingByUrl(store, info.url)
         entry == [NoCur EXCEPT !.prior = existing,
                                !.startLen = Len(store), !.endLen = Len(store)]
     IN IF GateHit(force, existing)
          THEN /\ results' = Append(results, AlreadyProcessed(info, existing))
               /\ succ' = succ + 1
               /\ idx' = idx + 1
               /\ audit' = Append(audit, [entry EXCEPT !.fate = "already"])
               /\ cur' = NoCur
               /\ pc' = "loop"
          ELSE /\ cur' = entry
               /\ pc' = "download"
               /\ UNCHANGED << results, succ, idx, audit >>
  /\ UNCHANGED << store, itemStore, tempFiles, batchVars, cls, data, txn, pending,
                  failed, lastBatch, madeBy, extractLog >>
  /\ UNCHANGED besideBatch

\* Lines 555-573 of the GRN loop.
CheckGrn ==
  /\ pc = "loop" /\ mode = "grn" /\ idx <= Len(atts)
  /\ LET info == atts[idx]
         existing == ExistingBySlot(store, info.attachment_number)
         entry == [NoCur EXCEPT !.prior = existing, !.startLen = Len(store), !.endLen = Len(store)]
     IN IF GrnGateHit(existing)
          THEN /\ results' = Append(results, AlreadyProcessed(info, existing))
               /\ idx' = idx + 1
               /\ audit' = Append(audit, [entry EXCEPT !.fate = "already"])
               /\ cur' = NoCur
               /\ pc' = "loop"
          ELSE /\ cur' = entry
               /\ pc' = "download"
               /\ UNCHANGED << results, idx, audit >>
  /\ UNCHANGED << store, itemStore, tempFiles, batchVars, cls, data, txn, pending,
                  succ, failed, lastBatch, madeBy, extractLog >>
  /\ UNCHANGED besideBatch

TempName == << run, idx >>

\* download_and_analyze, lines 44-96: fetch, detect the format, write the
\* temporary file.  Without a format the call fails before any file exists.
Download ==
  /\ pc = "download"
  /\ \E fmt \in FetchedFormats :
       IF fmt = None
         THEN /\ cls' = [NoCls EXCEPT !.error = MsgAnalyzing]
              /\ tempFiles' = tempFiles
              /\ pc' = "classified"
         ELSE /\ cls' = [NoCls EXCEPT !.detected_format = fmt,
                                      !.original_extension = ExtensionOf(fmt),
                                      !.temp_file_path = TempName]
              /\ tempFiles' = tempFiles \cup {TempName}
              /\ pc' = "analyze"
  /\ cur' = [cur EXCEPT !.downloaded = TRUE]
  /\ UNCHANGED << store, itemStore, batchVars, idx, data, txn, pending, results,
                  succ, failed, lastBatch, madeBy, audit, extractLog >>
  /\ UNCHANGED besideBatch

\* download_and_analyze, lines 98-134: text PDF or image PDF; a valid image,
\* or an invalid one whose temporary file is unlinked before the call fails.
Analyze ==
  /\ pc = "analyze"
  /\ \E good \in BOOLEAN :
       IF cls.detected_format = "PDF"
         THEN /\ cls' = [cls EXCEPT !.file_type = IF good THEN "pdf_text" ELSE "pdf_image",
                                    !.success = TRUE]
              /\ tempFiles' = tempFiles
         ELSE IF good
                THEN /\ cls' = [cls EXCEPT !.file_type = "image", !.success = TRUE]
                     /\ tempFiles' = tempFiles
                ELSE /\ cls' = [cls EXCEPT !.error = MsgAnalyzing,
                                           !.temp_file_path = None]
                     /\ tempFiles' = tempFiles \ {cls.temp_file_path}
  /\ pc' = "classified"
  /\ UNCHANGED << store, itemStore, batchVars, idx, data, txn, pending, results,
                  succ, failed, lastBatch, madeBy, audit, cur, extractLog >>
  /\ UNCHANGED besideBatch

\* What an exception raised inside the try block of one attachment does
\* before the finally clause runs: nothing in spreadsheet mode (the handler
\* is outside the try / finally), a failure record in GRN mode.
RaiseInTry(kind, msg) ==
  /\ pending' = [kind |-> kind, msg |-> msg]
  /\ pc' = "cleanup"
  /\ IF mode = "grn"
       THEN /\ store' = SaveErrorRecord(store,
                          ErrorRecordGrn(Len(store) + 1, atts[idx], msg,
                                         GrnErrorFileType(cls), GrnErrorExtension(cls)))
            /\ madeBy' = Append(madeBy, Tag)
       ELSE UNCHANGED << store, madeBy >>

\* The test of classification['success'] and the dispatch on file_type.
Dispatch ==
  /\ pc = "classified"
  /\ cur' = [cur EXCEPT !.classified = cls.success, !.file_type = cls.file_type,
                        !.extension = cls.original_extension]
  /\ IF ~cls.success
       THEN /\ store' = SaveErrorRecord(store,
                          IF mode = "excel"
                            THEN ErrorRecordDirect(Len(store) + 1, atts[idx], cls.error, "unknown", None)
                            ELSE ErrorRecordGrn(Len(store) + 1, atts[idx], cls.error, "unknown", None))
            /\ madeBy' = Append(madeBy, Tag)
            /\ pending' = [kind |-> "class_fail", msg |-> cls.error]
            /\ pc' = "return"
       ELSE CASE DispatchTarget(cls.file_type) = "extract" ->
                   /\ pc' = "extract"
                   /\ UNCHANGED << store, madeBy, pending >>
              [] DispatchTarget(cls.file_type) = "ocr_stub" ->
                   IF mode = "excel"
                     THEN /\ store' = SaveErrorRecord(store,
                                        ErrorRecordDirect(Len(store) + 1, atts[idx],
                                                          OcrRecordMsg(cls.file_type),
                                                          cls.file_type, cls.original_extension))
                          /\ madeBy' = Append(madeBy, Tag)
                          /\ pending' = [kind |-> "ocr", msg |-> OcrResultMsg(cls.file_type)]
                          /\ pc' = "cleanup"
                     ELSE \* the raise that follows lands in the except clause
                          \* of the same try block, which saves again
                          LET first == SaveErrorRecord(store,
                                         ErrorRecordGrn(Len(store) + 1, atts[idx],
                                                        OcrRecordMsg(cls.file_type),
                                                        cls.file_type, cls.original_extension))
                          IN /\ store' = SaveErrorRecord(first,
                                           ErrorRecordGrn(Len(first) + 1, atts[idx],
                                                          OcrRaiseMsg(cls.file_type),
                                                          GrnErrorFileType(cls), GrnErrorExtension(cls)))
                             /\ madeBy' = Append(Append(madeBy, Tag), Tag)
                             /\ pending' = [kind |-> "ocr", msg |-> OcrRaiseMsg(cls.file_type)]
                             /\ pc' = "cleanup"
              [] OTHER -> RaiseInTry("unsupported", "Unsupported file type")
  /\ UNCHANGED << itemStore, tempFiles, batchVars, idx, cls, data, txn, results,
                  succ, failed, lastBatch, audit, extractLog >>
  /\ UNCHANGED besideBatch

\* text_pdf_processor.process_file_path(temp_file_path)
Extract ==
  /\ pc = "extract"
  /\ extractLog' = extractLog \cup {cls.file_type}
  /\ \/ /\ data' = ExtractedDoc(atts[idx].url) /\ pc' = "save"
        /\ UNCHANGED << store, madeBy, pending >>
     \/ /\ RaiseInTry("extract_raise", MsgExtraction)
        /\ data' = data
  /\ UNCHANGED << itemStore, tempFiles, batchVars, idx, cls, txn, results,
                  succ, failed, lastBatch, audit, cur >>
  /\ UNCHANGED besideBatch

\* _save_extracted_data(_direct): with transaction.atomic(): ... invoice_data.save()
SaveRecord ==
  /\ pc = "save"
  /\ \/ /\ txn' = [open |-> TRUE,
                   rec |-> CompletedRecord(Len(store) + 1, mode, atts[idx], cls, data),
                   items |-> {}]
        /\ pc' = "items"
        /\ UNCHANGED << store, madeBy, pending >>
     \/ /\ RaiseInTry("persist_raise", MsgSave)
        /\ txn' = NoTxn
  /\ UNCHANGED << itemStore, tempFiles, batchVars, idx, cls, data, results,
                  succ, failed, lastBatch, audit, cur, extractLog >>
  /\ UNCHANGED besideBatch

\* Variant: the items are written one by one and the last one is missing.
BulkCreate_partial(invoiceId, n) == ItemRows(invoiceId, n - 1)

\* What bulk_create leaves in the transaction: every item of the invoice.
BulkCreate(invoiceId, n) == ItemRows(invoiceId, n)

\* _create_invoice_items: builds the rows and bulk-creates them; whatever is
\* raised on the way is logged and swallowed.
CreateItems ==
  /\ pc = "items"
  /\ IF data.items = 0
       THEN txn' = txn
       ELSE \E built \in BOOLEAN :
              txn' = [txn EXCEPT !.items = IF built THEN BulkCreate(txn.rec.id, data.items)
                                                     ELSE {}]
  /\ pc' = "commit"
  /\ UNCHANGED << store, itemStore, tempFiles, batchVars, idx, cls, data, pending,
                  results, succ, failed, lastBatch, madeBy, audit, cur, extractLog >>
  /\ UNCHANGED besideBatch

\* Leaving the atomic block: the record and its items become visible together.
Commit ==
  /\ pc = "commit"
  /\ store' = Append(store, txn.rec)
  /\ madeBy' = Append(madeBy, Tag)
  /\ itemStore' = itemStore \cup txn.items
  /\ txn' = NoTxn
  /\ pending' = [kind |-> "ok", msg |-> None]
  /\ pc' = "cleanup"
  /\ UNCHANGED << tempFiles, batchVars, idx, cls, data, results, succ, failed,
                  lastBatch, audit, cur, extractLog >>
  /\ UNCHANGED besideBatch

\* finally: if temp_file_path: cleanup_temp_file(temp_file_path)
Cleanup ==
  /\ pc = "cleanup"
  /\ tempFiles' = IF cls.temp_file_path # None
                    THEN CleanupTempFile(tempFiles, cls.temp_file_path)
                    ELSE tempFiles
  /\ pc' = "return"
  /\ UNCHANGED << store, itemStore, batchVars, idx, cls, data, txn, pending, results,
                  succ, failed, lastBatch, madeBy, audit, cur, extractLog >>
  /\ UNCHANGED besideBatch

\* Variant: a failed attachment ends the loop.
AfterFailure_abort(i) == Len(atts) + 1

\* Where the loop goes after an attachment has failed.
AfterFailure(i) == i + 1

\* The attachment returns to its loop: the spreadsheet handler of an
\* exception saves a failure record, the result is appended and counted.
Return ==
  /\ pc = "return"
  /\ LET info == atts[idx]
         ok == pending.kind = "ok"
         handled == mode = "excel" /\ pending.kind \in {"extract_raise", "persist_raise", "unsupported"}
         entry ==
           IF ok
             THEN ResultEntry(info, TRUE, None, store[Len(store)].id, data.vendor_name,
                              data.invoice_number, cls.file_type, None)
             ELSE ResultEntry(info, FALSE, None, None, None, None,
                              IF mode = "excel" /\ pending.kind \in {"ocr", "class_fail"}
                                THEN cls.file_type ELSE None,
                              pending.msg)
     IN /\ IF handled
             THEN /\ store' = SaveErrorRecord(store,
                                ErrorRecordDirect(Len(store) + 1, info, pending.msg,
                                                  DirectErrorFileType(cls), DirectErrorExtension(cls)))
                  /\ madeBy' = Append(madeBy, Tag)
             ELSE UNCHANGED << store, madeBy >>
        /\ results' = Append(results, entry)
        /\ succ' = IF mode = "excel" /\ ok THEN succ + 1 ELSE succ
        /\ failed' = IF mode = "excel" /\ ~ok THEN failed + 1 ELSE failed
        /\ audit' = Append(audit, [cur EXCEPT !.fate = pending.kind, !.error = pending.msg,
                                              !.endLen = Len(store')])
        /\ idx' = IF ok THEN idx + 1 ELSE AfterFailure(idx)
  /\ cur' = NoCur
  /\ pc' = "loop"
  /\ ResetAttachment
  /\ UNCHANGED << itemStore, tempFiles, batchVars, lastBatch, extractLog >>
  /\ UNCHANGED besideBatch

CountSuccess(rs) == Cardinality({ i \in 1..Len(rs) : rs[i].success })

\* The loop is over: the aggregate the batch call returns (lines 108-116 and
\* 585-592).
FinishBatch ==
  /\ pc = "loop" /\ idx > Len(atts)
  /\ lastBatch' =
       IF mode = "excel"
         THEN [returned |-> TRUE, raised |-> FALSE, success |-> TRUE, error |-> None,
               total_found |-> total, processed |-> Len(atts),
               successful |-> succ, failed |-> failed, results |-> results]
         ELSE [returned |-> TRUE, raised |-> FALSE, success |-> None, error |-> None,
               total_found |-> Len(results), processed |-> Len(results),
               successful |-> CountSuccess(results), failed |-> None, results |-> results]
  /\ pc' = "idle"
  /\ UNCHANGED << store, itemStore, tempFiles, batchVars, idx, cls, data, txn, pending,
                  results, succ, failed, madeBy, audit, cur, extractLog >>
  /\ UNCHANGED besideBatch

Next ==
  \/ \E s \in SheetNames, l \in 1..MaxLimit, f \in BOOLEAN : StartExcel(s, l, f)
  \/ \E g \in GrnIds : StartGrn(g)
  \/ CheckExcel
  \/ CheckGrn
  \/ Download
  \/ Analyze
  \/ Dispatch
  \/ Extract
  \/ SaveRecord
  \/ CreateItems
  \/ Commit
  \/ Cleanup
  \/ Return
  \/ FinishBatch

Spec == Init /\ [][Next]_vars


\* ------------------------------------------------------------------ claims
Returned == pc = "idle" /\ lastBatch.returned

SecondRunSameList == Returned /\ run >= 2 /\ ~force /\ prevList = CurList

Raised(e) == e.fate \in {"class_fail", "extract_raise", "persist_raise"}

\* C2: when exactly one attachment k of a batch of N raises (during
\* classification, extraction or persistence) and the others do not fail,
\* the batch call returns without raising, with N results of which only the
\* k-th is marked failed; the attachments after k are processed as usual.
C2_FailureIsolated ==
  (Returned /\ atts # <<>>) =>
    \A k \in 1..Len(audit) :
      ( /\ Raised(audit[k])
        /\ \A i \in 1..Len(audit) : i # k => audit[i].fate \in {"ok", "already"} )
      => /\ ~lastBatch.raised
         /\ Len(lastBatch.results) = Len(atts)
         /\ { i \in 1..Len(lastBatch.results) : ~lastBatch.results[i].success } = {k}

\* A returned batch of two attachments whose first raised and whose second
\* was extracted and saved after it.
C2_Witness ==
  /\ Returned /\ Len(atts) = 2 /\ Len(audit) = 2
  /\ Raised(audit[1]) /\ audit[2].fate = "ok"
  /\ ~lastBatch.results[1].success /\ lastBatch.results[2].success

\* The rows written by spreadsheet batches: their source is the PO number of
\* the spreadsheet row.
UniquePerSourceAndUrl ==
  \A i, j \in 1..Len(store) :
    ( /\ madeBy[i].mode = "excel" /\ madeBy[j].mode = "excel"
      /\ store[i].attachment_url = store[j].attachment_url
      /\ store[i].po_number = store[j].po_number ) => i = j

StoreOnlyGrows ==
  /\ Len(store') >= Len(store)
  /\ SubSeq(store', 1, Len(store)) = store

NonForcedWritesFresh ==
  (mode' = "excel" /\ ~force' /\ Len(store') > Len(store))
    => \A j \in (Len(store) + 1)..Len(store') :
         \A i \in 1..(j - 1) : store'[i].attachment_url # store'[j].attachment_url

Gated == mode = "grn" \/ ~force

\* C5: without forceReprocess, an attachment whose key already has a row is
\* short-circuited: nothing is downloaded, classified or extracted, no row is
\* written, and its result is a success with status already_processed that
\* carries the id, vendor name and invoice number of the existing row.
C5_ShortCircuit ==
  Gated =>
    /\ \A i \in 1..Len(audit) :
         Found(audit[i].prior) =>
           /\ ~audit[i].downloaded
           /\ audit[i].endLen = audit[i].startLen
           /\ results[i].success /\ results[i].status = "already_processed"
           /\ results[i].invoice_id = audit[i].prior.id
           /\ results[i].vendor_name = audit[i].prior.vendor_name
           /\ results[i].invoice_number = audit[i].prior.invoice_number
    /\ pc \in {"download", "analyze", "classified", "extract", "save", "items",
               "commit", "cleanup", "return"} => ~Found(cur.prior)

\* A skipped attachment whose existing row is a completed one with a vendor.
C5_Witness ==
  /\ Gated /\ mode = "excel"
  /\ \E i \in 1..Len(audit) :
       /\ Found(audit[i].prior) /\ audit[i].prior.vendor_name = "V2"
       /\ results[i].status = "already_processed"

\* C6: in GRN mode an attachment in slot i of GRN g is skipped as
\* already_processed only when a row written for that same GRN g and slot i
\* exists; a row of another GRN or of a spreadsheet with the same slot number
\* never makes g's attachment skipped.
C6_GateKeyedBySourceAndSlot ==
  mode = "grn" =>
    \A i \in 1..Len(audit) :
      audit[i].fate = "already" =>
        \E k \in 1..audit[i].startLen :
          /\ store[k].attachment_number = SlotStr(atts[i].attachment_number)
          /\ madeBy[k].mode = "grn" /\ madeBy[k].src = key.src

OcrType(e) == e.classified /\ e.file_type \in {"pdf_image", "image"}

C8_OneFailureRecord ==
  \A i \in 1..Len(audit) :
    ~results[i].success =>
      /\ audit[i].endLen = audit[i].startLen + 1
      /\ store[audit[i].endLen].processing_status = "failed"

\* C9: an exception during classification, extraction or persistence leaves
\* a failure row with the error text and the best-known file type and
\* extension: those of the classification when it had succeeded, unknown and
\* no extension otherwise.
C9_BestKnownFileType ==
  \A i \in 1..Len(audit) :
    Raised(audit[i]) =>
      \E k \in (audit[i].startLen + 1)..audit[i].endLen :
        /\ store[k].processing_status = "failed"
        /\ store[k].error_message = audit[i].error
        /\ store[k].file_type =
             (IF audit[i].classified THEN audit[i].file_type ELSE "unknown")
        /\ store[k].original_file_extension =
             (IF audit[i].classified THEN audit[i].extension ELSE None)

ItemsOf(r) == { it \in itemStore : it.invoice_id = r.id }

Completed == { k \in 1..Len(store) : store[k].processing_status = "completed" }

LimitArgs == 0..(MaxLimit + 1)

\* One call of process_from_excel_file on an empty store, its arguments kept.
StartLimited(s, l, f) ==
  /\ call = NoCall
  /\ BeginExcel(s, l, f)
  /\ call' = [op |-> "process_from_excel_file", sheet |-> s, limit |-> l, force |-> f]
  /\ UNCHANGED << invoice_schema, requests >>

NextLimit ==
  \/ \E s \in SheetNames, l \in LimitArgs, f \in BOOLEAN : StartLimited(s, l, f)
  \/ CheckExcel
  \/ Download
  \/ Analyze
  \/ Dispatch
  \/ Extract
  \/ SaveRecord
  \/ CreateItems
  \/ Commit
  \/ Cleanup
  \/ Return
  \/ FinishBatch

SpecLimit == Init /\ [][NextLimit]_vars

\* ----------------------------------------------------------------- C12
BatchCalled == call.op = "process_from_excel_file"

\* C12: with limit >= 0 the batch works on the first min(limit, total found)
\* attachments of the enumeration and on no other, one at a time in that
\* order: the i-th result belongs to the i-th enumerated attachment, the
\* returned batch has one result per attachment within the limit, and
\* nothing is checked, downloaded or written for an attachment beyond it.
C12_LimitInOrder ==
  BatchCalled =>
    LET found == ExtractAttachments(Sheets[call.sheet])
        n == IF call.limit < Len(found) THEN call.limit ELSE Len(found)
    IN /\ Len(atts) = n
       /\ \A i \in 1..n : atts[i] = found[i]
       /\ Len(results) <= n /\ Len(audit) = Len(results)
       /\ \A i \in 1..Len(results) : results[i].url = found[i].url
       /\ pc # "idle" => Len(results) = idx - 1
       /\ pc \in {"download", "analyze", "classified", "extract", "save", "items",
                  "commit", "cleanup", "return"} => idx <= n
       /\ Returned => Len(lastBatch.results) = n
       /\ \A k \in 1..Len(store) :
            \E i \in 1..n : /\ store[k].attachment_url = found[i].url
                             /\ i <= Len(results) + 1

\* A returned batch over a sheet with two attachments and limit 1: one
\* result, for the first attachment, and one row.
C12_Witness ==
  /\ BatchCalled /\ Returned /\ call.limit = 1
  /\ Len(ExtractAttachments(Sheets[call.sheet])) = 2
  /\ Len(lastBatch.results) = 1 /\ Len(store) = 1

\* ------------------------------------------------------------ helper calls
\* The helpers of the program are functions of their arguments.  Each of the
\* actions below calls one of them on an input drawn from a bounded set and
\* records the input and the result in call; the batch state is not touched.
progVars == << store, itemStore, tempFiles, run, mode, force, key, total, atts, idx,
               pc, cls, data, txn, pending, results, succ, failed, lastBatch,
               madeBy, audit, cur, prevList, runStart, extractLog,
               invoice_schema, requests >>

\* Rows of an uploaded sheet: a PO number or none, one cell in slot 1 and
\* one in slot 2 or 5.
CellTexts == {None, "u1", "u2", "x1"}

SheetRows ==
  { [po_no |-> p, att |-> [NoAtt EXCEPT ![1] = a, ![j] = b]] :
      p \in {None, "PO1"}, j \in {2, 5}, a \in CellTexts, b \in CellTexts }

RECURSIVE TablesUpTo(_)
TablesUpTo(n) ==
  IF n = 0 THEN { <<>> }
  ELSE LET shorter == TablesUpTo(n - 1)
       IN shorter \cup { Append(t, r) : t \in { x \in shorter : Len(x) = n - 1 }, r \in SheetRows }

\* _extract_attachments_from_file on the rows of a file.
CallExtractAttachments ==
  /\ call = NoCall
  /\ \E rows \in TablesUpTo(MaxSheetRows) :
       call' = [op |-> "extract_attachments", rows |-> rows,
                out |-> ExtractAttachments(rows)]
  /\ UNCHANGED progVars

\* ----------------------------------------------------- detect_data_type
po_indicators ==
  {"po_number", "po_no", "purchase_order_number", "order_number", "po_creation_date"}

grn_indicators ==
  {"grn_number", "grn_no", "receipt_number", "goods_receipt_no",
   "received_quantity", "grn_creation_date"}

combined_indicators ==
  {"po_amount", "grn_amount", "grn_subtotal", "grn_tax", "po_status", "received_status"}

\* combined_matches >= 3
CombinedThreshold == 3

po_matches(df_columns) == Cardinality(po_indicators \cap df_columns)
grn_matches(df_columns) == Cardinality(grn_indicators \cap df_columns)
combined_matches(df_columns) == Cardinality(combined_indicators \cap df_columns)

\* Variant: the combined branch asks for the combined count only.
DetectDataType_combinedOnly(df_columns) ==
  IF combined_matches(df_columns) >= CombinedThreshold THEN "combined_po_grn"
  ELSE IF grn_matches(df_columns) > po_matches(df_columns) THEN "grn"
  ELSE IF po_matches(df_columns) > 0 THEN "po"
  ELSE "unknown"

\* Variant: the GRN branch also takes equal counts.
DetectDataType_grnOnTie(df_columns) ==
  IF /\ combined_matches(df_columns) >= CombinedThreshold
     /\ po_matches(df_columns) > 0 /\ grn_matches(df_columns) > 0
  THEN "combined_po_grn"
  ELSE IF grn_matches(df_columns) >= po_matches(df_columns)
          /\ grn_matches(df_columns) > 0 THEN "grn"
  ELSE IF po_matches(df_columns) > 0 THEN "po"
  ELSE "unknown"

DetectDataType(df_columns) ==
  IF /\ combined_matches(df_columns) >= CombinedThreshold
     /\ po_matches(df_columns) > 0 /\ grn_matches(df_columns) > 0
  THEN "combined_po_grn"
  ELSE IF grn_matches(df_columns) > po_matches(df_columns) THEN "grn"
  ELSE IF po_matches(df_columns) > 0 THEN "po"
  ELSE "unknown"

\* The data_type the result object carries for each detected type
\* (process_po_data, process_grn_data, process_combined_po_grn_data, and the
\* unknown branch of process_uploaded_file).
ResultDataType(detected) ==
  CASE detected = "po" -> "purchase_order"
    [] detected = "grn" -> "goods_receipt_note"
    [] detected = "combined_po_grn" -> "combined_po_grn"
    [] OTHER -> "unknown"

\* Normalized column names a sheet may carry.
ColumnPool ==
  {"po_number", "po_no", "po_creation_date",
   "grn_no", "grn_number", "received_quantity",
   "po_amount", "grn_amount", "po_status", "received_status", "location"}

CallDetectDataType ==
  /\ call = NoCall
  /\ \E cols \in SUBSET ColumnPool :
       call' = [op |-> "detect_data_type", cols |-> cols,
                out |-> ResultDataType(DetectDataType(cols))]
  /\ UNCHANGED progVars

\* ------------------------------------------------------------ map_columns
\* Longest alias list of a catalog entry.
MaxAliases == 2

\* Variant: the last present alias of the list is taken.
RECURSIVE FirstPresent_last(_, _, _)
FirstPresent_last(possible_names, df_columns, k) ==
  IF k > Len(possible_names) THEN None
  ELSE LET later == FirstPresent_last(possible_names, df_columns, k + 1)
       IN IF later # None THEN later
          ELSE IF possible_names[k] \in df_columns THEN possible_names[k]
          ELSE None

\* for possible_name in possible_names: if possible_name in df_columns: ... break
RECURSIVE FirstPresent(_, _, _)
FirstPresent(possible_names, df_columns, k) ==
  IF k > Len(possible_names) THEN None
  ELSE IF possible_names[k] \in df_columns THEN possible_names[k]
  ELSE FirstPresent(possible_names, df_columns, k + 1)

\* column_map[possible_name] = standard_name
SetItem(column_map, possible_name, standard_name) ==
  [a \in DOMAIN column_map \cup {possible_name} |->
     IF a = possible_name THEN standard_name ELSE column_map[a]]

\* The loop over column_mapping.items(), in the catalog's order, from entry k.
RECURSIVE MapColumnsFrom(_, _, _, _)
MapColumnsFrom(column_mapping, df_columns, k, column_map) ==
  IF k > Len(column_mapping) THEN column_map
  ELSE LET hit == FirstPresent(column_mapping[k].aliases, df_columns, 1)
       IN MapColumnsFrom(column_mapping, df_columns, k + 1,
            IF hit = None THEN column_map
            ELSE SetItem(column_map, hit, column_mapping[k].field))

EmptyMap == [a \in {} |-> None]

MapColumns(column_mapping, df_columns) ==
  MapColumnsFrom(column_mapping, df_columns, 1, EmptyMap)

\* Alias catalogs: one or two canonical fields, each with a list of distinct
\* aliases; an alias may be listed under both fields.
AliasPool == {"po_no", "po_number", "date"}

AliasLists ==
  { l \in UNION { [1..n -> AliasPool] : n \in 1..MaxAliases } :
      \A i, j \in 1..Len(l) : i # j => l[i] # l[j] }

Catalogs ==
  { << [field |-> "po_number", aliases |-> l] >> : l \in AliasLists }
  \cup { << [field |-> "po_number", aliases |-> l1],
            [field |-> "po_date", aliases |-> l2] >> :
         l1 \in AliasLists, l2 \in AliasLists }

CallMapColumns ==
  /\ call = NoCall
  /\ \E catalog \in Catalogs, cols \in SUBSET AliasPool :
       call' = [op |-> "map_columns", catalog |-> catalog, cols |-> cols,
                out |-> MapColumns(catalog, cols)]
  /\ UNCHANGED progVars

\* ------------------------------------------------- tabular extraction
po_columns ==
  << [field |-> "po_number",
      aliases |-> << "po_number", "po_no", "po no.", "purchase_order_number", "order_number" >>],
     [field |-> "po_date",
      aliases |-> << "po_date", "po_creation_date", "order_date", "purchase_date", "date" >>],
     [field |-> "vendor_name",
      aliases |-> << "vendor_name", "vendor", "supplier_name", "supplier" >>],
     [field |-> "vendor_code",
      aliases |-> << "vendor_code", "vendor_id", "supplier_code", "supplier_id" >>],
     [field |-> "item_code",
      aliases |-> << "item_code", "item_id", "product_code", "sku" >>],
     [field |-> "item_description",
      aliases |-> << "item_description", "description", "product_name", "item_name" >>],
     [field |-> "quantity",
      aliases |-> << "quantity", "qty", "ordered_qty", "order_quantity", "no_item_in_po" >>],
     [field |-> "unit",
      aliases |-> << "unit", "uom", "unit_of_measure" >>],
     [field |-> "rate",
      aliases |-> << "rate", "unit_price", "price", "cost" >>],
     [field |-> "amount",
      aliases |-> << "amount", "total", "line_total", "total_amount", "po_amount" >>],
     [field |-> "delivery_date",
      aliases |-> << "delivery_date", "expected_date", "due_date" >>],
     [field |-> "status",
      aliases |-> << "status", "po_status", "order_status" >>],
     [field |-> "location",
      aliases |-> << "location", "site", "branch", "warehouse" >>],
     [field |-> "concerned_person",
      aliases |-> << "concerned_person", "contact_person", "buyer" >>] >>

grn_columns ==
  << [field |-> "grn_number",
      aliases |-> << "grn_number", "grn_no", "grn no.", "receipt_number", "goods_receipt_no" >>],
     [field |-> "grn_date",
      aliases |-> << "grn_date", "grn_creation_date", "receipt_date", "received_date", "date" >>],
     [field |-> "po_number",
      aliases |-> << "po_number", "po_no", "po no.", "purchase_order_number", "reference_po" >>],
     [field |-> "vendor_name",
      aliases |-> << "vendor_name", "vendor", "supplier_name", "supplier" >>],
     [field |-> "item_code",
      aliases |-> << "item_code", "item_id", "product_code", "sku" >>],
     [field |-> "item_description",
      aliases |-> << "item_description", "description", "product_name", "item_name" >>],
     [field |-> "received_quantity",
      aliases |-> << "received_quantity", "received_qty", "qty_received", "quantity", "no_item_in_grn" >>],
     [field |-> "accepted_quantity",
      aliases |-> << "accepted_quantity", "accepted_qty", "qty_accepted" >>],
     [field |-> "rejected_quantity",
      aliases |-> << "rejected_quantity", "rejected_qty", "qty_rejected" >>],
     [field |-> "unit",
      aliases |-> << "unit", "uom", "unit_of_measure" >>],
     [field |-> "rate",
      aliases |-> << "rate", "unit_price", "price", "cost" >>],
     [field |-> "amount",
      aliases |-> << "amount", "total", "line_total", "total_amount", "grn_amount" >>],
     [field |-> "subtotal",
      aliases |-> << "subtotal", "grn_subtotal", "net_amount" >>],
     [field |-> "tax",
      aliases |-> << "tax", "grn_tax", "tax_amount", "gst" >>],
     [field |-> "batch_number",
      aliases |-> << "batch_number", "batch_no", "lot_number" >>],
     [field |-> "expiry_date",
      aliases |-> << "expiry_date", "exp_date", "expiration_date" >>],
     [field |-> "inspector",
      aliases |-> << "inspector", "checked_by", "quality_inspector" >>],
     [field |-> "remarks",
      aliases |-> << "remarks", "comments", "notes" >>],
     [field |-> "received_status",
      aliases |-> << "received_status", "status", "grn_status" >>],
     [field |-> "location",
      aliases |-> << "location", "site", "branch", "warehouse" >>] >>

combined_po_grn_columns ==
  << [field |-> "s_no",
      aliases |-> << "s.no.", "s_no", "serial_number", "sr_no" >>],
     [field |-> "location",
      aliases |-> << "location", "site", "branch", "warehouse" >>],
     [field |-> "po_number",
      aliases |-> << "po no.", "po_number", "po_no", "purchase_order_number" >>],
     [field |-> "po_creation_date",
      aliases |-> << "po_creation_date", "po_date", "order_date" >>],
     [field |-> "no_item_in_po",
      aliases |-> << "no_item_in_po", "po_items", "po_line_count" >>],
     [field |-> "po_amount",
      aliases |-> << "po_amount", "po_total", "order_amount" >>],
     [field |-> "po_status",
      aliases |-> << "po_status", "order_status", "po_state" >>],
     [field |-> "supplier_name",
      aliases |-> << "supplier_name", "vendor_name", "vendor" >>],
     [field |-> "concerned_person",
      aliases |-> << "concerned person", "concerned_person", "contact_person" >>],
     [field |-> "grn_no",
      aliases |-> << "grn_no", "grn_number", "receipt_number" >>],
     [field |-> "grn_creation_date",
      aliases |-> << "grn_creation_date", "grn_date", "receipt_date" >>],
     [field |-> "no_item_in_grn",
      aliases |-> << "no_item_in_grn", "grn_items", "grn_line_count" >>],
     [field |-> "received_status",
      aliases |-> << "received status", "received_status", "grn_status" >>],
     [field |-> "grn_subtotal",
      aliases |-> << "grn_subtotal", "subtotal", "net_amount" >>],
     [field |-> "grn_tax",
      aliases |-> << "grn_tax", "tax_amount", "gst" >>],
     [field |-> "grn_amount",
      aliases |-> << "grn_amount", "grn_total", "receipt_amount" >>] >>

\* Header text is a sequence of characters.
UpperCase == << "A", "B", "C", "D", "E", "F", "G", "H", "I", "J", "K", "L", "M" >>
             \o << "N", "O", "P", "Q", "R", "S", "T", "U", "V", "W", "X", "Y", "Z" >>

LowerCase == << "a", "b", "c", "d", "e", "f", "g", "h", "i", "j", "k", "l", "m" >>
             \o << "n", "o", "p", "q", "r", "s", "t", "u", "v", "w", "x", "y", "z" >>

\* str.lower() on one character
Lower(c) ==
  IF \E i \in 1..Len(UpperCase) : UpperCase[i] = c
  THEN LowerCase[CHOOSE i \in 1..Len(UpperCase) : UpperCase[i] = c]
  ELSE c

\* str.strip(): leading and trailing blanks removed
RECURSIVE Strip(_)
Strip(cs) ==
  IF cs = << >> THEN cs
  ELSE IF Head(cs) = " " THEN Strip(Tail(cs))
  ELSE IF cs[Len(cs)] = " " THEN Strip(SubSeq(cs, 1, Len(cs) - 1))
  ELSE cs

\* .str.lower().str.replace(' ', '_').str.replace('-', '_') on one character
NormalizeChar(c) == IF c = " " \/ c = "-" THEN "_" ELSE Lower(c)

RECURSIVE JoinNormalized(_, _)
JoinNormalized(cs, k) ==
  IF k > Len(cs) THEN "" ELSE NormalizeChar(cs[k]) \o JoinNormalized(cs, k + 1)

\* normalize_column_names on one column name; the result is the name as text
NormalizeColumnName(cs) == JoinNormalized(Strip(cs), 1)

normalize_column_names(headers) ==
  [k \in 1..Len(headers) |-> NormalizeColumnName(headers[k])]

Columns(names) == { names[k] : k \in 1..Len(names) }

\* df.rename(columns=column_map)
Rename(names, column_map) ==
  [k \in 1..Len(names) |->
     IF names[k] \in DOMAIN column_map THEN column_map[names[k]] ELSE names[k]]

\* Cells of an amount or quantity column of a spreadsheet: a number cell
\* or a text cell.
NumberCell == [kind |-> "number", text |-> "100"]
TextCell == [kind |-> "text", text |-> "TBD"]
AmountCells == {NumberCell, TextCell}

\* Cell of the loaded table: the PO number in the PO column, the row's
\* amount cell in the amount and quantity columns, filler text elsewhere.
CellOf(table, r, k) ==
  IF k = table.po_col THEN table.pos[r]
  ELSE IF k \in table.amt_cols THEN table.amounts[r]
  ELSE "x"

\* df_cleaned['po_number'].nunique() if 'po_number' in df_cleaned.columns else 0
UniquePos(table, names) ==
  IF "po_number" \in Columns(names)
  THEN LET k == CHOOSE j \in 1..Len(names) : names[j] = "po_number"
       IN Cardinality({ CellOf(table, r, k) : r \in 1..Len(table.pos) })
  ELSE 0

\* process_po_data, process_grn_data and process_combined_po_grn_data: the
\* columns are renamed through the catalog of the detected type.
ProcessTyped(table, names, detected, catalog) ==
  LET column_map == MapColumns(catalog, Columns(names))
  IN [data_type |-> ResultDataType(detected),
      total_records |-> Len(table.pos),
      unique_pos |-> UniquePos(table, Rename(names, column_map)),
      columns_mapped |-> column_map]

\* The columns whose .sum() the summary of each detected type takes.
SummedFields(detected) ==
  CASE detected = "po" -> {"amount"}
    [] detected = "grn" -> {"received_quantity", "accepted_quantity", "rejected_quantity"}
    [] detected = "combined_po_grn" -> {"po_amount", "grn_amount", "grn_subtotal", "grn_tax"}
    [] OTHER -> {}

\* Series.sum() over a column that holds numbers and text raises TypeError
\* (number + text); over numbers it adds, over text alone it concatenates.
SumRaises(table, names, detected) ==
  \E k \in 1..Len(names) :
    /\ names[k] \in SummedFields(detected) /\ k \in table.amt_cols
    /\ { CellOf(table, r, k).kind : r \in 1..Len(table.pos) } = {"number", "text"}

\* The branches after the emptiness test of process_uploaded_file; the
\* summary of an unknown table has no unique_pos.
ProcessFrame(table, names) ==
  LET data_type == DetectDataType(Columns(names))
  IN CASE data_type = "unknown" ->
            [data_type |-> "unknown", total_records |-> Len(table.pos),
             unique_pos |-> None, columns_mapped |-> EmptyMap]
       [] data_type = "po" -> ProcessTyped(table, names, data_type, po_columns)
       [] data_type = "grn" -> ProcessTyped(table, names, data_type, grn_columns)
       [] OTHER -> ProcessTyped(table, names, data_type, combined_po_grn_columns)

\* Header rows of uploaded sheets, as typed.
CombinedReportHeaders ==
  << << "S", ".", "N", "o", "." >>,
     << "P", "O", " ", "N", "o", "." >>,
     << "S", "u", "p", "p", "l", "i", "e", "r", " ", "N", "a", "m", "e" >>,
     << "G", "R", "N", " ", "N", "o", "." >>,
     << "P", "O", " ", "A", "m", "o", "u", "n", "t" >>,
     << "G", "R", "N", " ", "A", "m", "o", "u", "n", "t" >>,
     << "P", "O", " ", "S", "t", "a", "t", "u", "s" >>,
     << "R", "e", "c", "e", "i", "v", "e", "d", " ", "S", "t", "a", "t", "u", "s" >> >>

\* The same report without full stops.
PlainReportHeaders ==
  << << " ", "S", " ", "N", "o" >>,
     << "P", "O", " ", "N", "o", " " >>,
     << "S", "u", "p", "p", "l", "i", "e", "r", " ", "N", "a", "m", "e" >>,
     << "G", "R", "N", " ", "N", "o" >>,
     << "P", "O", " ", "A", "m", "o", "u", "n", "t" >>,
     << "G", "R", "N", " ", "A", "m", "o", "u", "n", "t" >>,
     << "P", "O", " ", "S", "t", "a", "t", "u", "s" >>,
     << "R", "e", "c", "e", "i", "v", "e", "d", " ", "S", "t", "a", "t", "u", "s" >> >>

\* A purchase-order sheet.
OrderHeaders ==
  << << "P", "O", "-", "N", "u", "m", "b", "e", "r" >>,
     << "V", "e", "n", "d", "o", "r" >>,
     << "A", "m", "o", "u", "n", "t" >> >>

\* A goods-receipt sheet.
ReceiptHeaders ==
  << << "G", "R", "N", " ", "N", "u", "m", "b", "e", "r" >>,
     << "P", "O", " ", "N", "u", "m", "b", "e", "r" >>,
     << "R", "e", "c", "e", "i", "v", "e", "d", " ", "Q", "u", "a", "n", "t", "i", "t", "y" >> >>

\* A sheet of neither kind.
OtherHeaders ==
  << << "N", "a", "m", "e" >>,
     << "C", "i", "t", "y" >> >>

HeaderRows ==
  { [headers |-> CombinedReportHeaders, po_col |-> 2, amt_cols |-> {5, 6}],
    [headers |-> PlainReportHeaders, po_col |-> 2, amt_cols |-> {5, 6}],
    [headers |-> OrderHeaders, po_col |-> 1, amt_cols |-> {3}],
    [headers |-> ReceiptHeaders, po_col |-> 2, amt_cols |-> {3}],
    [headers |-> OtherHeaders, po_col |-> 0, amt_cols |-> {}] }

PoValues == {"P1", "P2"}

\* Loaded tables, the one without a data row included.
Frames ==
  UNION { { [headers |-> h.headers, po_col |-> h.po_col, amt_cols |-> h.amt_cols,
             pos |-> p, amounts |-> m] :
              h \in HeaderRows, p \in [1..n -> PoValues], m \in [1..n -> AmountCells] } :
          n \in 0..MaxSheetRows }

\* process_uploaded_file / process_file_path from the loaded table df on:
\* every exception leaves as Exception("Failed to process file: ...").
ProcessLoaded(table) ==
  LET names == normalize_column_names(table.headers)
      detected == DetectDataType(Columns(names))
      catalog == CASE detected = "po" -> po_columns
                   [] detected = "grn" -> grn_columns
                   [] OTHER -> combined_po_grn_columns
  IN IF Len(table.pos) = 0
     THEN [status |-> "raised", cause |-> "The uploaded file is empty or contains no data"]
     ELSE IF SumRaises(table, Rename(names, MapColumns(catalog, Columns(names))), detected)
     THEN [status |-> "raised", cause |-> "TypeError"]
     ELSE [status |-> "returned", result |-> ProcessFrame(table, names)]

CallProcessFrame ==
  /\ call = NoCall
  /\ \E table \in Frames :
       call' = [op |-> "process_frame", table |-> table, out |-> ProcessLoaded(table)]
  /\ UNCHANGED progVars

\* ----------------------------------------------- read_file: header row
\* for i in range(min(15, len(df_preview)))
HeaderScanRows == 15

\* Most rows that precede the candidate header row in a sheet.
MaxLead == 16

header_indicators ==
  { << "s", ".", "n", "o", "." >>,
    << "l", "o", "c", "a", "t", "i", "o", "n" >>,
    << "p", "o", " ", "n", "o", "." >>,
    << "p", "o", "_", "c", "r", "e", "a", "t", "i", "o", "n", "_", "d", "a", "t", "e" >>,
    << "s", "u", "p", "p", "l", "i", "e", "r", "_", "n", "a", "m", "e" >>,
    << "g", "r", "n", "_", "n", "o" >>,
    << "g", "r", "n", "_", "c", "r", "e", "a", "t", "i", "o", "n", "_", "d", "a", "t", "e" >> }

\* Cells of one preview row that are not NaN, as text.
BlankRow == << >>
BannerRow == << << "S", "t", "o", "c", "k", " ", "R", "e", "p", "o", "r", "t" >> >>
SiteBannerRow == << << "L", "o", "c", "a", "t", "i", "o", "n", ":", " ", "H", "Q" >> >>
TitledHeaderRow == << << "S", ".", "N", "o", "." >>, << "P", "O", " ", "N", "o", "." >> >>
SplitHeaderRow == << << "P", "O" >>, << "N", "o", "." >> >>
SnakeHeaderRow == << << "G", "R", "N", "_", "N", "O" >>, << "Q", "t", "y" >> >>
DataRow == << << "1" >>, << "P", "1" >> >>

LeadRows == {BlankRow, BannerRow}
CandidateRows ==
  {BannerRow, SiteBannerRow, TitledHeaderRow, SplitHeaderRow, SnakeHeaderRow, DataRow}

\* ' '.join(row_values)
RECURSIVE JoinCells(_, _)
JoinCells(row_values, k) ==
  IF k > Len(row_values) THEN << >>
  ELSE IF k = Len(row_values) THEN row_values[k]
  ELSE row_values[k] \o << " " >> \o JoinCells(row_values, k + 1)

\* ' '.join(row_values).lower()
RowText(row_values) ==
  LET joined == JoinCells(row_values, 1)
  IN [k \in 1..Len(joined) |-> Lower(joined[k])]

\* indicator in row_text
Contains(text, pat) ==
  \E i \in 1..(Len(text) - Len(pat) + 1) : SubSeq(text, i, i + Len(pat) - 1) = pat

\* any(indicator in row_text for indicator in header_indicators)
HasIndicator(row_values) ==
  \E indicator \in header_indicators : Contains(RowText(row_values), indicator)

\* Variant: every row of the preview is scanned.
RECURSIVE FindHeaderRow_wholeSheet(_, _)
FindHeaderRow_wholeSheet(df_preview, i) ==
  IF i >= Len(df_preview) THEN << >>
  ELSE IF HasIndicator(df_preview[i + 1]) THEN << i >>
  ELSE FindHeaderRow_wholeSheet(df_preview, i + 1)

\* The scan from row i (0-based) on: << i >> for header_row = i, and << >>
\* for header_row = None.
RECURSIVE FindHeaderRow(_, _)
FindHeaderRow(df_preview, i) ==
  IF i >= Min(HeaderScanRows, Len(df_preview)) THEN << >>
  ELSE IF HasIndicator(df_preview[i + 1]) THEN << i >>
  ELSE FindHeaderRow(df_preview, i + 1)

\* The row read_excel is given as header, and whether the warning is logged.
DetectHeader(df_preview) ==
  LET header_row == FindHeaderRow(df_preview, 0)
  IN IF header_row # << >>
     THEN [header |-> header_row[1], warning |-> FALSE]
     ELSE [header |-> 0, warning |-> TRUE]

\* Previews: some lead rows of one kind, two candidate rows, a data row.
Previews ==
  { [k \in 1..(n + 3) |-> IF k <= n THEN lead
                          ELSE IF k = n + 1 THEN c1
                          ELSE IF k = n + 2 THEN c2 ELSE DataRow] :
      n \in 0..MaxLead, lead \in LeadRows, c1 \in CandidateRows, c2 \in CandidateRows }

CallDetectHeader ==
  /\ call = NoCall
  /\ \E df_preview \in Previews :
       call' = [op |-> "detect_header", preview |-> df_preview,
                out |-> DetectHeader(df_preview)]
  /\ UNCHANGED progVars

\* ---------------------------------------------------- classify_document
VALID_PDF_EXTENSIONS == {".pdf"}
VALID_IMAGE_EXTENSIONS == {".jpg", ".jpeg", ".png", ".tiff", ".bmp"}

\* Most pages of a PDF.
MaxPages == 2

\* Last index of character c in path, 0 when absent (str.rfind).
RECURSIVE LastIndexOf(_, _, _)
LastIndexOf(path, c, k) ==
  IF k = 0 THEN 0
  ELSE IF path[k] = c THEN k
  ELSE LastIndexOf(path, c, k - 1)

\* os.path.splitext(file_path)[1]: the text from the last full stop of the
\* last path component on, empty when that component has no full stop or
\* only leading ones.
SplitExt(path) ==
  LET sep == LastIndexOf(path, "/", Len(path))
      dot == LastIndexOf(path, ".", Len(path))
  IN IF dot > sep /\ \E j \in (sep + 1)..(dot - 1) : path[j] # "."
     THEN SubSeq(path, dot, Len(path))
     ELSE << >>

RECURSIVE JoinLower(_, _)
JoinLower(cs, k) ==
  IF k > Len(cs) THEN "" ELSE Lower(cs[k]) \o JoinLower(cs, k + 1)

\* file_ext = os.path.splitext(file_path)[1].lower()
FileExt(path) == JoinLower(SplitExt(path), 1)

\* What is behind a path: nothing that can be opened, bytes no parser
\* accepts, an image, or a PDF with its page count and what extract_text
\* does on its first page.
WhitespaceChars == {" ", "\t"}
PageTexts == { << >>, << " " >>, << " ", "\t" >>, << "I", "N", "V" >>, << " ", "7" >> }

Files ==
  { [kind |-> "unreadable"], [kind |-> "corrupt"], [kind |-> "image"] }
  \cup { [kind |-> "pdf", pages |-> n, extract |-> "raises"] : n \in 0..MaxPages }
  \cup { [kind |-> "pdf", pages |-> n, extract |-> "text", text |-> t] :
           n \in 0..MaxPages, t \in PageTexts }

Raise == [raised |-> TRUE]
Value(v) == [raised |-> FALSE, value |-> v]

\* str.isspace()
IsSpace(text) == text # << >> /\ \A i \in 1..Len(text) : text[i] \in WhitespaceChars

\* The try block of _is_text_based_pdf.
TextPdfBody(file) ==
  IF file.kind = "unreadable" THEN Raise
  ELSE IF file.kind # "pdf" THEN Raise
  ELSE IF file.pages = 0 THEN Value(FALSE)
  ELSE IF file.extract = "raises" THEN Raise
  ELSE IF file.text = << >> \/ IsSpace(file.text) THEN Value(FALSE)
  ELSE Value(TRUE)

\* The try block of _is_valid_image.
ValidImageBody(file) ==
  IF file.kind = "unreadable" THEN Raise
  ELSE IF file.kind # "image" THEN Raise
  ELSE Value(TRUE)

\* Variant: the exception is propagated.
ExceptReturnFalse_propagate(outcome) == outcome

\* except Exception: return False
ExceptReturnFalse(outcome) == IF outcome.raised THEN Value(FALSE) ELSE outcome

_is_text_based_pdf(file) == ExceptReturnFalse(TextPdfBody(file))
_is_valid_image(file) == ExceptReturnFalse(ValidImageBody(file))

\* The pair a callee's outcome gives, or the exception it lets through.
Pair(kind, outcome) ==
  IF outcome.raised THEN Raise
  ELSE [raised |-> FALSE, kind |-> kind, processable |-> outcome.value]

classify_document(path, file) ==
  IF FileExt(path) \in VALID_PDF_EXTENSIONS THEN Pair("pdf", _is_text_based_pdf(file))
  ELSE IF FileExt(path) \in VALID_IMAGE_EXTENSIONS THEN Pair("image", _is_valid_image(file))
  ELSE Pair("unsupported", Value(FALSE))

FilePaths ==
  { << "i", "n", "v", ".", "p", "d", "f" >>,
    << "i", "n", "v", ".", "P", "D", "F" >>,
    << "s", "c", "a", "n", ".", "J", "p", "g" >>,
    << "s", "c", "a", "n", ".", "j", "p", "e", "g" >>,
    << "s", "c", "a", "n", ".", "p", "n", "g" >>,
    << "s", "c", "a", "n", ".", "t", "i", "f", "f" >>,
    << "s", "c", "a", "n", ".", "b", "m", "p" >>,
    << "n", "o", "t", "e", "s", ".", "t", "x", "t" >>,
    << "i", "n", "v", "o", "i", "c", "e" >>,
    << ".", "p", "d", "f" >>,
    << "i", "n", "v", ".", "p", "d", "f", ".", "t", "x", "t" >>,
    << "d", ".", "p", "d", "f", "/", "i", "n", "v" >>,
    << "a", ".", "t", "a", "r", ".", "P", "d", "f" >> }

CallClassifyDocument ==
  /\ call = NoCall
  /\ \E path \in FilePaths, file \in Files :
       call' = [op |-> "classify_document", path |-> path, file |-> file,
                out |-> classify_document(path, file)]
  /\ UNCHANGED progVars

\* ------------------------------------------------------ numeric coercion
\* Longest generated value text.
MaxLen == 3

DigitChars == << "0", "1", "2", "3", "4", "5", "6", "7", "8", "9" >>
IsDigit(c) == \E d \in 1..Len(DigitChars) : DigitChars[d] = c
DigitValue(c) == (CHOOSE d \in 1..Len(DigitChars) : DigitChars[d] = c) - 1

\* The characters each field's coercion removes with str.replace.
RecordFields == "record"          \* invoice totals and GST details, lines 413-414
QuantityField == "item_quantity"  \* lines 456-457
PriceFields == "item_price"       \* unit_price, invoice_value_item_wise, tax fields
FieldKinds == {RecordFields, QuantityField, PriceFields}

ReplacedIn(field) ==
  CASE field = RecordFields -> {",", "₹", "%"}
    [] field = QuantityField -> {","}
    [] field = PriceFields -> {",", "₹"}

\* .replace(c, '') for each removed character
RemoveChars(value, removed) == SelectSeq(value, LAMBDA c : c \notin removed)

\* Decimal(text) accepts digits with at most one decimal point and at least
\* one digit; anything else raises InvalidOperation.
IsDecimalText(text) ==
  /\ \A i \in 1..Len(text) : IsDigit(text[i]) \/ text[i] = "."
  /\ Cardinality({ i \in 1..Len(text) : text[i] = "." }) <= 1
  /\ \E i \in 1..Len(text) : IsDigit(text[i])

\* The integer the digits of text spell, the point left out.
RECURSIVE Coefficient(_, _, _)
Coefficient(text, k, acc) ==
  IF k > Len(text) THEN acc
  ELSE IF text[k] = "." THEN Coefficient(text, k + 1, acc)
  ELSE Coefficient(text, k + 1, 10 * acc + DigitValue(text[k]))

\* Decimal(text): coefficient and number of decimal places.
DecimalOf(text) ==
  LET point == LastIndexOf(text, ".", Len(text))
  IN [coef |-> Coefficient(text, 1, 0),
      places |-> IF point = 0 THEN 0 ELSE Len(text) - point]

Unset == [set |-> FALSE]

\* if value: try: clean = str(value).replace(...)...strip();
\*   if clean: field = Decimal(clean)  except (InvalidOperation, ValueError): warn
Coerce(field, value) ==
  IF value = << >> THEN Unset
  ELSE LET clean_value == Strip(RemoveChars(value, ReplacedIn(field)))
       IN IF clean_value = << >> THEN Unset
          ELSE IF IsDecimalText(clean_value)
          THEN [set |-> TRUE, value |-> DecimalOf(clean_value)]
          ELSE Unset

ValueChars == {"1", "0", ",", ".", "₹", "%", " ", "N"}

ValueTexts ==
  UNION { [1..n -> ValueChars] : n \in 0..MaxLen }
  \cup { << "1", ",", "2", "5", "0", ".", "0", "0" >>,
         << "N", "/", "A" >>,
         << "₹", " ", "1", ",", "2", "5", "0", ".", "0", "0" >>,
         << "1", "8", "%" >>,
         << "₹", "5", "0", "0" >> }

CallCoerce ==
  /\ call = NoCall
  /\ \E field \in FieldKinds, value \in ValueTexts :
       call' = [op |-> "coerce", field |-> field, value |-> value,
                out |-> Coerce(field, value)]
  /\ UNCHANGED progVars

\* ------------------------------------------------- _analyze_pdf_content
SamplePages == 3       \* min(3, len(doc))
TextThreshold == 100   \* avg_text_per_page > 100

\* Most pages of a downloaded PDF.
MaxDocPages == 4

\* str.strip() of a page text: white space removed at both ends
PageWhitespace == WhitespaceChars \cup {"\n"}

RECURSIVE StripText(_)
StripText(text) ==
  IF text = << >> THEN text
  ELSE IF Head(text) \in PageWhitespace THEN StripText(Tail(text))
  ELSE IF text[Len(text)] \in PageWhitespace THEN StripText(SubSeq(text, 1, Len(text) - 1))
  ELSE text

\* pages_to_check = min(3, len(doc))
pages_to_check(doc) == IF SamplePages < Len(doc.pages) THEN SamplePages ELSE Len(doc.pages)

\* for page_num in range(pages_to_check): total_text_length += len(text)
RECURSIVE total_text_length(_, _)
total_text_length(doc, page_num) ==
  IF page_num >= pages_to_check(doc) THEN 0
  ELSE Len(StripText(doc.pages[page_num + 1])) + total_text_length(doc, page_num + 1)

\* Variant: an average of exactly the threshold counts as text.
ExceedsThreshold_atLeast(total_length, pages) ==
  IF pages > 0 THEN total_length >= TextThreshold * pages ELSE 0 >= TextThreshold

\* avg_text_per_page = total / pages if pages > 0 else 0; avg > 100.  The
\* quotient of the true division exceeds 100 exactly when the total exceeds
\* 100 times the divisor.
ExceedsThreshold(total_length, pages) ==
  IF pages > 0 THEN total_length > TextThreshold * pages ELSE 0 > TextThreshold

\* The try block of _analyze_pdf_content: fitz.open raises on a file it
\* cannot read.
AnalyzePdfBody(doc) ==
  IF ~doc.opens THEN Raise
  ELSE Value(ExceedsThreshold(total_text_length(doc, 0), pages_to_check(doc)))

_analyze_pdf_content(doc) == ExceptReturnFalse(AnalyzePdfBody(doc)).value

\* Page texts: white space around n other characters.
Fill(n, c) == [i \in 1..n |-> c]
PageOf(lead, n, trail) == Fill(lead, "\n") \o Fill(n, "x") \o Fill(trail, " ")
DocPageTexts ==
  { PageOf(1, 0, 2), PageOf(1, TextThreshold, 0), PageOf(0, TextThreshold + 1, 0),
    PageOf(0, 2 * TextThreshold, 1) }

RECURSIVE PageLists(_)
PageLists(n) ==
  IF n = 0 THEN { << >> }
  ELSE PageLists(n - 1)
       \cup { Append(ps, t) : ps \in { q \in PageLists(n - 1) : Len(q) = n - 1 },
                              t \in DocPageTexts }

Unreadable == [opens |-> FALSE]
PdfDocs == { Unreadable } \cup { [opens |-> TRUE, pages |-> ps] : ps \in PageLists(MaxDocPages) }

CallAnalyzePdfContent ==
  /\ call = NoCall
  /\ \E doc \in PdfDocs :
       call' = [op |-> "_analyze_pdf_content", doc |-> doc, out |-> _analyze_pdf_content(doc)]
  /\ UNCHANGED progVars

\* ------------------------------------------------- download_and_analyze
\* Bytes are written as one token each: printable bytes as their character,
\* the others as two hexadecimal digits.
PdfSignature  == << "%", "P", "D", "F" >>                               \* b'%PDF'
JpegSignature == << "FF", "D8", "FF" >>                                 \* b'\xff\xd8\xff'
PngSignature  == << "89", "P", "N", "G", "0D", "0A", "1A", "0A" >>      \* b'\x89PNG\r\n\x1a\n'

FirstBytesLength == 20   \* response.content[:20]

\* bytes.startswith / str.endswith / str.lower
StartsWith(bytes, prefix) ==
  Len(bytes) >= Len(prefix) /\ SubSeq(bytes, 1, Len(prefix)) = prefix
EndsWith(text, suffix) ==
  Len(text) >= Len(suffix) /\ SubSeq(text, Len(text) - Len(suffix) + 1, Len(text)) = suffix
LowerText(text) == [k \in 1..Len(text) |-> Lower(text[k])]

first_bytes(response) ==
  SubSeq(response.content, 1,
         IF Len(response.content) < FirstBytesLength THEN Len(response.content)
         ELSE FirstBytesLength)

\* Lines 57-65: the file signature.
SignatureFormat(response) ==
  IF StartsWith(first_bytes(response), PdfSignature) THEN "PDF"
  ELSE IF StartsWith(first_bytes(response), JpegSignature) THEN "JPEG"
  ELSE IF StartsWith(first_bytes(response), PngSignature) THEN "PNG"
  ELSE None

\* Lines 66-74: the content-type header, lower-cased.
ContentTypeFormat(response) ==
  LET content_type == LowerText(response.content_type)
  IN IF Contains(content_type, << "p", "d", "f" >>) THEN "PDF"
     ELSE IF Contains(content_type, << "j", "p", "e", "g" >>) \/ Contains(content_type, << "j", "p", "g" >>) THEN "JPEG"
     ELSE IF Contains(content_type, << "p", "n", "g" >>) THEN "PNG"
     ELSE None

\* Lines 76-88: the end of the lower-cased URL.
UrlFormat(url) ==
  LET url_lower == LowerText(url)
  IN IF EndsWith(url_lower, << "." >> \o << "p", "d", "f" >>) THEN "PDF"
     ELSE IF EndsWith(url_lower, << "." >> \o << "j", "p", "g" >>)
             \/ EndsWith(url_lower, << "." >> \o << "j", "p", "e", "g" >>) THEN "JPEG"
     ELSE IF EndsWith(url_lower, << "." >> \o << "p", "n", "g" >>) THEN "PNG"
     ELSE None

\* Variant: the content-type header is asked before the signature.
DetectFormat_headerFirst(url, response) ==
  IF ContentTypeFormat(response) # None THEN ContentTypeFormat(response)
  ELSE IF SignatureFormat(response) # None THEN SignatureFormat(response)
  ELSE UrlFormat(url)

\* The if / elif chain of lines 57-88; None stands for the ValueError of
\* line 88.
DetectFormat(url, response) ==
  IF SignatureFormat(response) # None THEN SignatureFormat(response)
  ELSE IF ContentTypeFormat(response) # None THEN ContentTypeFormat(response)
  ELSE UrlFormat(url)

\* tempfile.NamedTemporaryFile(delete=False, suffix=extension).name
TempFileName(extension) == "tmp" \o extension

\* _verify_image: Image.open / img.verify raise on anything but an image.
VerifyImageBody(response) == IF response.image_ok THEN Value(TRUE) ELSE Raise

_verify_image(response) == ExceptReturnFalse(VerifyImageBody(response)).value

\* Variant: the handler unlinks the file and leaves the path in the result.
ExceptHandler_keepPath(result, disk) ==
  [result |-> [result EXCEPT !.error = MsgAnalyzing],
   disk |-> disk \ {result.temp_file_path}]

\* Lines 121-132: the handler of any exception of the try block.
ExceptHandler(result, disk) ==
  IF result.temp_file_path # None /\ result.temp_file_path \in disk
  THEN [result |-> [result EXCEPT !.error = MsgAnalyzing, !.temp_file_path = None],
        disk |-> disk \ {result.temp_file_path}]
  ELSE [result |-> [result EXCEPT !.error = MsgAnalyzing], disk |-> disk]

\* Lines 98-118 for a file saved under path.
AnalyzeSaved(result, disk, response) ==
  IF result.detected_format = "PDF"
  THEN [result |-> [result EXCEPT !.success = TRUE,
                                  !.file_type = IF _analyze_pdf_content(response.pdf)
                                                THEN "pdf_text" ELSE "pdf_image"],
        disk |-> disk]
  ELSE IF _verify_image(response)
  THEN [result |-> [result EXCEPT !.success = TRUE, !.file_type = "image"], disk |-> disk]
  ELSE ExceptHandler(result, disk)

\* download_and_analyze(url) against the files on disk: the classification
\* it returns and the files on disk afterwards.
download_and_analyze(url, response, disk) ==
  IF response.status # "ok" THEN ExceptHandler(NoCls, disk)
  ELSE LET detected_format == DetectFormat(url, response)
       IN IF detected_format = None THEN ExceptHandler(NoCls, disk)
          ELSE LET extension == ExtensionOf(detected_format)
                   saved == [NoCls EXCEPT !.detected_format = detected_format,
                                          !.original_extension = extension,
                                          !.temp_file_path = TempFileName(extension)]
               IN AnalyzeSaved(saved, disk \cup {TempFileName(extension)}, response)

\* What a server answers: no answer or an error status, or a body with its
\* content-type header, what a PDF reader makes of the body and whether an
\* image reader accepts it.
Contents ==
  { << "%", "P", "D", "F", "-", "1" >>,
    << "FF", "D8", "FF", "E0" >>,
    << "89", "P", "N", "G", "0D", "0A", "1A", "0A", "I" >>,
    << "89", "P", "N", "G" >>,
    << " ", "%", "P", "D", "F" >>,
    << "<", "h", "t", "m", "l", ">" >>,
    << >> }

ContentTypes ==
  { << >>,
    << "A", "p", "p", "l", "i", "c", "a", "t", "i", "o", "n", "/", "P", "D", "F" >>,
    << "i", "m", "a", "g", "e", "/", "j", "p", "e", "g" >>,
    << "i", "m", "a", "g", "e", "/", "j", "p", "g" >>,
    << "I", "M", "A", "G", "E", "/", "P", "N", "G" >>,
    << "t", "e", "x", "t", "/", "h", "t", "m", "l" >> }

Urls ==
  { << "a", ".", "p", "d", "f" >>,
    << "a", ".", "P", "D", "F" >>,
    << "a", ".", "j", "p", "g" >>,
    << "a", ".", "J", "p", "e", "g" >>,
    << "a", ".", "p", "n", "g" >>,
    << "a", ".", "p", "d", "f", "?", "v" >>,
    << "a", ".", "g", "i", "f" >> }

BodyDocs ==
  { Unreadable, [opens |-> TRUE, pages |-> << >>] }
  \cup { [opens |-> TRUE, pages |-> << t >>] : t \in DocPageTexts }

ServerResponses ==
  { [status |-> s] : s \in {"unreachable", "http_error"} }
  \cup { [status |-> "ok", content |-> c, content_type |-> t, pdf |-> d, image_ok |-> b] :
           c \in Contents, t \in ContentTypes, d \in BodyDocs, b \in BOOLEAN }

CallDownloadAndAnalyze ==
  /\ call = NoCall
  /\ \E url \in Urls, response \in ServerResponses :
       LET after == download_and_analyze(url, response, tempFiles)
       IN /\ call' = [op |-> "download_and_analyze", url |-> url, response |-> response,
                      out |-> after.result]
          /\ tempFiles' = after.disk
  /\ UNCHANGED << store, itemStore, run, mode, force, key, total, atts, idx,
                  pc, cls, data, txn, pending, results, succ, failed, lastBatch,
                  madeBy, audit, cur, prevList, runStart, extractLog,
                  invoice_schema, requests >>

\* ---------------------------------------------- determine_document_type
\* Text is a sequence of characters.
PO_KEYWORDS ==
  << << "p", "u", "r", "c", "h", "a", "s", "e", " ", "o", "r", "d", "e", "r" >>,
     << "p", ".", "o", "." >>,
     << "p", ".", "o" >>,
     << "p", "/", "o" >>,
     << "o", "r", "d", "e", "r", " ", "n", "u", "m", "b", "e", "r" >>,
     << "o", "r", "d", "e", "r", " ", "n", "o" >>,
     << "o", "r", "d", "e", "r", " ", "#" >>,
     << "o", "r", "d", "e", "r", "e", "d", " ", "b", "y" >>,
     << "s", "h", "i", "p", " ", "t", "o" >>,
     << "d", "e", "l", "i", "v", "e", "r", "y", " ", "d", "a", "t", "e" >> >>

INVOICE_KEYWORDS ==
  << << "i", "n", "v", "o", "i", "c", "e" >>,
     << "b", "i", "l", "l" >>,
     << "t", "a", "x", " ", "i", "n", "v", "o", "i", "c", "e" >>,
     << "i", "n", "v", "o", "i", "c", "e", " ", "n", "u", "m", "b", "e", "r" >>,
     << "i", "n", "v", "o", "i", "c", "e", " ", "n", "o" >>,
     << "i", "n", "v", "o", "i", "c", "e", " ", "#" >>,
     << "i", "n", "v", "o", "i", "c", "e", " ", "d", "a", "t", "e" >>,
     << "p", "a", "y", "m", "e", "n", "t", " ", "d", "u", "e" >>,
     << "a", "m", "o", "u", "n", "t", " ", "d", "u", "e" >>,
     << "b", "a", "l", "a", "n", "c", "e", " ", "d", "u", "e" >>,
     << "t", "o", "t", "a", "l", " ", "d", "u", "e" >>,
     << "p", "a", "y", "m", "e", "n", "t", " ", "t", "e", "r", "m", "s" >> >>

\* for keyword in keywords: if keyword in text_lower: score += 1
RECURSIVE KeywordScore(_, _, _)
KeywordScore(keywords, text_lower, k) ==
  IF k > Len(keywords) THEN 0
  ELSE (IF Contains(text_lower, keywords[k]) THEN 1 ELSE 0)
       + KeywordScore(keywords, text_lower, k + 1)

\* Regular expressions over lower-cased text.  A position is the index of
\* the next character to match; each operator below gives the positions a
\* match can have reached after one more part of a pattern.
\* \w, \s, \d and the classes of the patterns
WordChars == { LowerCase[i] : i \in 1..Len(LowerCase) }
             \cup { DigitChars[i] : i \in 1..Len(DigitChars) } \cup { "_" }
SpaceChars == PageWhitespace
Digits == { DigitChars[i] : i \in 1..Len(DigitChars) }
SeparatorChars == SpaceChars \cup { ":", "." }     \* [\s:.] and [.\s:]
JoinerChars == SpaceChars \cup { "/", "." }        \* [/\s.]

\* \b
IsWordAt(text, i) == i >= 1 /\ i <= Len(text) /\ text[i] \in WordChars
WordBoundaries(text) ==
  { i \in 1..(Len(text) + 1) : IsWordAt(text, i - 1) # IsWordAt(text, i) }

\* a literal
After(text, from, word) ==
  { i + Len(word) : i \in { j \in from : /\ j + Len(word) - 1 <= Len(text)
                                        /\ SubSeq(text, j, j + Len(word) - 1) = word } }

\* (?:a|b|...)
AfterAny(text, from, words) == UNION { After(text, from, w) : w \in words }

\* (?:word)?
AfterOptionalWord(text, from, word) == from \cup After(text, from, word)

\* [class]?
AfterOptional(text, from, class) ==
  from \cup { i + 1 : i \in { j \in from : j <= Len(text) /\ text[j] \in class } }

\* [class]*
AfterMany(text, from, class) ==
  { j \in 1..(Len(text) + 1) :
      \E i \in from : i <= j /\ \A k \in i..(j - 1) : text[k] \in class }

\* [class]+
AfterSome(text, from, class) ==
  { j \in 1..(Len(text) + 1) :
      \E i \in from : i < j /\ \A k \in i..(j - 1) : text[k] \in class }

\* (?:no|number|#|num)[\s:.]*\d+
NumberWords == { << "n", "o" >>, << "n", "u", "m", "b", "e", "r" >>, << "#" >>, << "n", "u", "m" >> }
AfterNumberRef(text, from) ==
  AfterSome(text, AfterMany(text, AfterAny(text, from, NumberWords), SeparatorChars), Digits)

\* re.search(r'\binvoice\s*(?:no|number|#|num)[\s:.]*\d+', text)
SearchInvoiceNo(text) ==
  AfterNumberRef(text, AfterMany(text, After(text, WordBoundaries(text), << "i", "n", "v", "o", "i", "c", "e" >>), SpaceChars)) # {}

\* re.search(r'\binv\s*(?:no|number|#|num)[\s:.]*\d+', text)
SearchInvNo(text) ==
  AfterNumberRef(text, AfterMany(text, After(text, WordBoundaries(text), << "i", "n", "v" >>), SpaceChars)) # {}

\* re.search(r'\b(?:p(?:urchase)?[/\s.]?o(?:rder)?)[.\s:]*(?:no|number|#|num)[\s:.]*\d+', text)
SearchPoNo(text) ==
  LET p == After(text, WordBoundaries(text), << "p" >>)
      purchase == AfterOptionalWord(text, p, << "u", "r", "c", "h", "a", "s", "e" >>)
      joined == AfterOptional(text, purchase, JoinerChars)
      o == After(text, joined, << "o" >>)
      order == AfterOptionalWord(text, o, << "r", "d", "e", "r" >>)
  IN AfterNumberRef(text, AfterMany(text, order, SeparatorChars)) # {}

\* re.search(r'\border\s*(?:no|number|#|num)[\s:.]*\d+', text)
SearchOrderNo(text) ==
  AfterNumberRef(text, AfterMany(text, After(text, WordBoundaries(text), << "o", "r", "d", "e", "r" >>), SpaceChars)) # {}

\* any of invoice_patterns / any of po_patterns
MatchesInvoicePatterns(text) == SearchInvoiceNo(text) \/ SearchInvNo(text)
MatchesPoPatterns(text) == SearchPoNo(text) \/ SearchOrderNo(text)

\* Variant: on a tie the PO patterns are tried before the invoice patterns.
PatternType_poFirst(text_lower) ==
  IF MatchesPoPatterns(text_lower) THEN "po"
  ELSE IF MatchesInvoicePatterns(text_lower) THEN "invoice"
  ELSE "unknown"

\* Lines 58-82: the patterns, invoice patterns first.
PatternType(text_lower) ==
  IF MatchesInvoicePatterns(text_lower) THEN "invoice"
  ELSE IF MatchesPoPatterns(text_lower) THEN "po"
  ELSE "unknown"

determine_document_type(text) ==
  LET text_lower == LowerText(text)
      po_score == KeywordScore(PO_KEYWORDS, text_lower, 1)
      invoice_score == KeywordScore(INVOICE_KEYWORDS, text_lower, 1)
  IN IF po_score > invoice_score THEN "po"
     ELSE IF invoice_score > po_score THEN "invoice"
     ELSE PatternType(text_lower)

\* Document texts: two phrases with a blank between them.
Phrases ==
  { << >>,
    << "T", "a", "x", " ", "I", "n", "v", "o", "i", "c", "e" >>,
    << "P", "u", "r", "c", "h", "a", "s", "e", " ", "O", "r", "d", "e", "r" >>,
    << "I", "N", "V", " ", "N", "o", ":", " ", "5" >>,
    << "P", "O", " ", "N", "o", ".", " ", "7" >>,
    << "O", "r", "d", "e", "r", " ", "#", "1", "2" >>,
    << "B", "i", "l", "l" >>,
    << "S", "h", "i", "p", " ", "T", "o" >>,
    << "s", "u", "b", "i", "n", "v", " ", "n", "o", " ", "5" >>,
    << "I", "n", "v", " ", "n", "u", "m" >>,
    << "P", "/", "O" >>,
    << "p", "u", "r", "c", "h", "a", "s", "e", ".", "o", "r", "d", "e", "r", " ", "n", "u", "m", "b", "e", "r", " ", "3", "1" >>,
    << "I", "n", "v", "o", "i", "c", "e" >> }

DocumentTexts == { a \o << " " >> \o b : a \in Phrases, b \in Phrases }

CallDetermineDocumentType ==
  /\ call = NoCall
  /\ \E text \in DocumentTexts :
       call' = [op |-> "determine_document_type", text |-> text,
                out |-> determine_document_type(text)]
  /\ UNCHANGED progVars

NextFn ==
  \/ CallExtractAttachments
  \/ CallDetectDataType
  \/ CallMapColumns
  \/ CallProcessFrame
  \/ CallDetectHeader
  \/ CallClassifyDocument
  \/ CallCoerce
  \/ CallAnalyzePdfContent
  \/ CallDownloadAndAnalyze
  \/ CallDetermineDocumentType

SpecFn == Init /\ [][NextFn]_vars

\* ----------------------------------------------------------------- C11
Enumerated == call.op = "extract_attachments"

\* Cells of the sheet in the order the enumeration visits them.
Before(r1, i1, r2, i2) == r1 < r2 \/ (r1 = r2 /\ i1 < i2)

\* The cells the listing is about: every non-empty cell, or only the cells
\* that hold an http(s) URL in a row with a PO number.
ListedCell(rows, r, i, eligibleOnly) ==
  /\ rows[r].att[i] # None
  /\ eligibleOnly => (rows[r].po_no # None /\ rows[r].att[i] \in HttpUrls)

\* The entry e is the first of those cells that holds its URL.
IsFirstOf(rows, e, eligibleOnly) ==
  /\ e.row_number \in 1..Len(rows) /\ e.attachment_number \in Slots
  /\ ListedCell(rows, e.row_number, e.attachment_number, eligibleOnly)
  /\ rows[e.row_number].att[e.attachment_number] = e.url
  /\ \A r \in 1..Len(rows), i \in Slots :
       (ListedCell(rows, r, i, eligibleOnly) /\ rows[r].att[i] = e.url)
         => ~Before(r, i, e.row_number, e.attachment_number)

\* out lists the URL of every such cell exactly once, each with the row and
\* slot of its first such cell, in the order of those first cells.
ListsFirstOccurrences(rows, out, eligibleOnly) ==
  /\ \A r \in 1..Len(rows), i \in Slots :
       ListedCell(rows, r, i, eligibleOnly) =>
         Cardinality({ k \in 1..Len(out) : out[k].url = rows[r].att[i] }) = 1
  /\ \A k \in 1..Len(out) : IsFirstOf(rows, out[k], eligibleOnly)
  /\ \A k, m \in 1..Len(out) :
       k < m => Before(out[k].row_number, out[k].attachment_number,
                       out[m].row_number, out[m].attachment_number)

Detected == call.op = "detect_data_type"

CountIn(indicators) == Cardinality({c \in call.cols : c \in indicators})

CombinedRule ==
  CountIn(combined_indicators) >= 3 /\ CountIn(po_indicators) > 0
  /\ CountIn(grn_indicators) > 0

\* C13: the classifier answers combined when at least 3 combined indicators
\* and at least one PO and one GRN indicator are present; otherwise GRN-only
\* when GRN indicators outnumber PO indicators; otherwise PO-only when a PO
\* indicator is present; otherwise unknown. PO indicators alone give
\* purchase_order, 3 combined + 1 PO + 1 GRN give combined_po_grn, and no
\* indicator at all gives unknown.
C13_DecisionOrder ==
  Detected =>
    /\ CombinedRule => call.out = "combined_po_grn"
    /\ (~CombinedRule /\ CountIn(grn_indicators) > CountIn(po_indicators))
         => call.out = "goods_receipt_note"
    /\ (~CombinedRule /\ CountIn(grn_indicators) <= CountIn(po_indicators)
        /\ CountIn(po_indicators) > 0) => call.out = "purchase_order"
    /\ (~CombinedRule /\ CountIn(grn_indicators) = 0 /\ CountIn(po_indicators) = 0)
         => call.out = "unknown"
    /\ (CountIn(po_indicators) = 3 /\ CountIn(grn_indicators) = 0
        /\ CountIn(combined_indicators) = 0) => call.out = "purchase_order"
    /\ (CountIn(combined_indicators) = 3 /\ CountIn(po_indicators) = 1
        /\ CountIn(grn_indicators) = 1) => call.out = "combined_po_grn"

\* Three combined indicators with one PO and one GRN indicator.
C13_Witness ==
  /\ Detected /\ call.out = "combined_po_grn"
  /\ CountIn(combined_indicators) = 3 /\ CountIn(po_indicators) = 1
  /\ CountIn(grn_indicators) = 1

\* ----------------------------------------------------------------- C14
Tie ==
  /\ Detected /\ ~CombinedRule
  /\ CountIn(po_indicators) = CountIn(grn_indicators) /\ CountIn(po_indicators) > 0

\* C14 as stated: outside the combined rule, equal non-zero PO and GRN
\* indicator counts give goods_receipt_note.
C14_Original == Tie => call.out = "goods_receipt_note"

\* C14 amended: outside the combined rule, equal non-zero PO and GRN
\* indicator counts give purchase_order; GRN-only needs strictly more GRN
\* than PO indicators.
C14_Amended ==
  /\ Tie => call.out = "purchase_order"
  /\ (Detected /\ call.out = "goods_receipt_note")
       => CountIn(grn_indicators) > CountIn(po_indicators)

\* Two PO and two GRN indicators with fewer than three combined ones.
C14_Witness ==
  /\ Tie /\ CountIn(po_indicators) = 2 /\ CountIn(combined_indicators) = 2
  /\ call.out = "purchase_order"

\* ----------------------------------------------------------------- C15
Mapped == call.op = "map_columns"

\* Alias l[k] is the highest-priority alias of list l present in cols.
IsFirstPresent(l, k, cols) ==
  /\ k \in 1..Len(l) /\ l[k] \in cols
  /\ \A j \in 1..(k - 1) : l[j] \notin cols

MapsTo(out, a, f) == a \in DOMAIN out /\ out[a] = f

\* For entry e: its first present alias is mapped to its field, no other
\* alias of e is, and the field is absent when no alias of e is present.
FieldMappedByPriority(e, cols, out) ==
  /\ \A k \in 1..Len(e.aliases) :
       IF IsFirstPresent(e.aliases, k, cols)
       THEN MapsTo(out, e.aliases[k], e.field)
       ELSE ~MapsTo(out, e.aliases[k], e.field)
  /\ (\A k \in 1..Len(e.aliases) : e.aliases[k] \notin cols)
       => \A a \in DOMAIN out : out[a] # e.field

NoSharedAlias(catalog) ==
  \A i, j \in 1..Len(catalog) :
    i # j => \A k \in 1..Len(catalog[i].aliases), m \in 1..Len(catalog[j].aliases) :
               catalog[i].aliases[k] # catalog[j].aliases[m]

\* C15 as stated: for every alias catalog and column set, every canonical
\* field has its highest-priority present alias mapped to it, no other alias
\* of it mapped to it, and is absent when none of its aliases is present.
C15_Original ==
  Mapped => \A i \in 1..Len(call.catalog) :
              FieldMappedByPriority(call.catalog[i], call.cols, call.out)

\* C15 amended: the result is keyed by alias, so that holds for every
\* catalog in which no alias is listed under two fields; in general an
\* alias is a key exactly when it is the highest-priority present alias of
\* some field, and it is mapped to the last such field in catalog order.
C15_Amended ==
  Mapped =>
    /\ NoSharedAlias(call.catalog)
         => \A i \in 1..Len(call.catalog) :
              FieldMappedByPriority(call.catalog[i], call.cols, call.out)
    /\ \A a \in AliasPool :
         LET owners == { i \in 1..Len(call.catalog) :
                           \E k \in 1..Len(call.catalog[i].aliases) :
                             /\ call.catalog[i].aliases[k] = a
                             /\ IsFirstPresent(call.catalog[i].aliases, k, call.cols) }
         IN IF owners = {} THEN a \notin DOMAIN call.out
            ELSE \E i \in owners : /\ \A j \in owners : j <= i
                                   /\ MapsTo(call.out, a, call.catalog[i].field)

\* Two aliases of one field are both present: the first one is the key, the
\* second one is not.
C15_Witness ==
  /\ Mapped /\ NoSharedAlias(call.catalog) /\ Len(call.catalog) = 2
  /\ Len(call.catalog[1].aliases) = 2
  /\ call.catalog[1].aliases[1] \in call.cols
  /\ call.catalog[1].aliases[2] \in call.cols
  /\ MapsTo(call.out, call.catalog[1].aliases[1], "po_number")
  /\ call.catalog[1].aliases[2] \notin DOMAIN call.out

\* ----------------------------------------------------------------- C16
Processed == call.op = "process_frame"

DistinctPos(table) == Cardinality({ table.pos[r] : r \in 1..Len(table.pos) })

\* C16: the report with headers S.No., PO No., Supplier Name, GRN No.,
\* PO Amount, GRN Amount, PO Status, Received Status and 2 data rows comes
\* out as combined_po_grn with total_records 2 and unique_pos equal to the
\* number of distinct PO numbers of the 2 rows.
C16_EndToEnd ==
  (Processed /\ call.table.headers = CombinedReportHeaders /\ Len(call.table.pos) = 2)
    => /\ call.out.status = "returned"
       /\ call.out.result.data_type = "combined_po_grn"
       /\ call.out.result.total_records = 2
       /\ call.out.result.unique_pos = DistinctPos(call.table)

\* ----------------------------------------------------------------- C17
HeaderDetected == call.op = "detect_header"

\* Row i (0-based) is one of the first 15 rows and its text holds a keyword.
KeywordRow(preview, i) ==
  /\ i \in 0..14 /\ i < Len(preview)
  /\ \E indicator \in header_indicators : Contains(RowText(preview[i + 1]), indicator)

\* C17: the header is the lowest-indexed row among the first 15 rows whose
\* joined lower-cased text contains a header keyword, and row 0 with a
\* warning when there is no such row; 4 blank or banner rows followed by a
\* row holding "S.No." and "PO No." give header index 4.
C17_HeaderDetection ==
  HeaderDetected =>
    LET p == call.preview
    IN /\ \A i \in 0..(Len(p) - 1) :
            (KeywordRow(p, i) /\ \A j \in 0..(i - 1) : ~KeywordRow(p, j))
              => call.out = [header |-> i, warning |-> FALSE]
       /\ (\A i \in 0..(Len(p) - 1) : ~KeywordRow(p, i))
            => call.out = [header |-> 0, warning |-> TRUE]
       /\ (/\ Len(p) > 4 /\ p[5] = TitledHeaderRow
           /\ \A k \in 1..4 : p[k] \in LeadRows) => call.out.header = 4

\* Four banner rows, then the row holding "S.No." and "PO No.".
C17_Witness ==
  /\ HeaderDetected /\ Len(call.preview) > 4
  /\ \A k \in 1..4 : call.preview[k] = BannerRow
  /\ call.preview[5] = TitledHeaderRow
  /\ call.out = [header |-> 4, warning |-> FALSE]

\* ----------------------------------------------------------------- C18
\* C18: the extractor fails exactly when the loaded table has no row; every
\* table with a row gives a result, and one of unrecognized schema gives its
\* rows tagged unknown with total_records equal to the row count.
C18_FailsOnlyOnEmpty ==
  Processed =>
    /\ call.out.status = "raised" <=> Len(call.table.pos) = 0
    /\ (/\ Len(call.table.pos) > 0
        /\ DetectDataType(Columns(normalize_column_names(call.table.headers))) = "unknown")
         => /\ call.out.status = "returned"
            /\ call.out.result.data_type = "unknown"
            /\ call.out.result.total_records = Len(call.table.pos)

\* ----------------------------------------------------------------- C19
DocClassified == call.op = "classify_document"

AllowedExt == FileExt(call.path) \in VALID_PDF_EXTENSIONS \cup VALID_IMAGE_EXTENSIONS

\* Opening or parsing the file behind the path raises.
OpenOrParseRaises ==
  \/ call.file.kind \in {"unreadable", "corrupt"}
  \/ FileExt(call.path) \in VALID_PDF_EXTENSIONS /\ call.file.kind # "pdf"
  \/ FileExt(call.path) \in VALID_IMAGE_EXTENSIONS /\ call.file.kind # "image"
  \/ /\ FileExt(call.path) \in VALID_PDF_EXTENSIONS /\ call.file.kind = "pdf"
     /\ call.file.pages > 0 /\ call.file.extract = "raises"

BlankFirstPage ==
  /\ call.file.kind = "pdf" /\ call.file.pages > 0 /\ call.file.extract = "text"
  /\ \A i \in 1..Len(call.file.text) : call.file.text[i] \in {" ", "\t"}

\* C19: classify_document lets no exception through: every path gets a
\* (kind, processable) pair; an extension outside the PDF and image lists
\* gives (unsupported, false); processable is false whenever opening or
\* parsing raised; a PDF with no page, or whose first page's text is empty or
\* only whitespace, gives (pdf, false).
C19_NeverRaises ==
  DocClassified =>
    /\ ~call.out.raised
    /\ call.out.kind \in {"pdf", "image", "unsupported"}
    /\ call.out.processable \in BOOLEAN
    /\ ~AllowedExt => (call.out.kind = "unsupported" /\ ~call.out.processable)
    /\ (AllowedExt /\ OpenOrParseRaises) => ~call.out.processable
    /\ (/\ FileExt(call.path) = ".pdf" /\ call.file.kind = "pdf"
        /\ (call.file.pages = 0 \/ BlankFirstPage))
         => (call.out.kind = "pdf" /\ ~call.out.processable)

\* A PDF path behind which parsing the first page raises: (pdf, false).
C19_Witness ==
  /\ DocClassified /\ FileExt(call.path) = ".pdf"
  /\ call.file.kind = "pdf" /\ call.file.pages > 0 /\ call.file.extract = "raises"
  /\ call.out = [raised |-> FALSE, kind |-> "pdf", processable |-> FALSE]

\* ----------------------------------------------------------------- C20
Coerced == call.op = "coerce"

\* The value without thousands separators, currency symbols, percent signs
\* and surrounding blanks.
Stripped(value) ==
  Strip(SelectSeq(value, LAMBDA c : c # "," /\ c # "₹" /\ c # "%"))

\* C20: for record-level and line-item fields alike, the text is rid of
\* thousands separators, currency symbols and percent signs; the field is
\* set to the decimal value when the rest is numeric and left unset
\* otherwise; "1,250.00" becomes 1250.00 and "N/A" leaves the field unset.
C20_UniformCoercion ==
  Coerced =>
    /\ IF IsDecimalText(Stripped(call.value))
       THEN call.out = [set |-> TRUE, value |-> DecimalOf(Stripped(call.value))]
       ELSE call.out = [set |-> FALSE]
    /\ call.value = << "1", ",", "2", "5", "0", ".", "0", "0" >>
         => call.out = [set |-> TRUE, value |-> [coef |-> 125000, places |-> 2]]
    /\ call.value = << "N", "/", "A" >> => call.out = [set |-> FALSE]

\* ------------------------------------------------- schema reconciliation
\* JSON values: a scalar, an object (keys to values) or an array.
Str(v) == [t |-> "str", v |-> v]
Obj(f) == [t |-> "obj", v |-> f]
Arr(a) == [t |-> "arr", v |-> a]

Party ==
  Obj([name |-> Str(""), gstin |-> Str(""), address |-> Str(""),
       phone |-> Str(""), email |-> Str("")])

\* self.invoice_schema as __init__ builds it
InvoiceSchema ==
  [invoice_number |-> Str(""), invoice_date |-> Str(""), due_date |-> Str(""),
   seller |-> Party, buyer |-> Party,
   items |-> Arr(<< Obj([description |-> Str(""), hsn_sac |-> Str(""),
                         quantity |-> Str(""), unit |-> Str(""), rate |-> Str(""),
                         discount |-> Str(""), amount |-> Str("")]) >>),
   subtotal |-> Str(""), discount_total |-> Str(""),
   taxes |-> Obj([cgst |-> Str(""), sgst |-> Str(""), igst |-> Str(""),
                  cess |-> Str(""), total_tax |-> Str("")]),
   grand_total |-> Str(""), amount_in_words |-> Str(""), payment_terms |-> Str(""),
   bank_details |-> Obj([bank_name |-> Str(""), account_number |-> Str(""),
                         ifsc_code |-> Str(""), branch |-> Str("")])]

\* isinstance(validated_data[key], dict) and isinstance(value, dict)
BothObjects(schema, extracted_data, top_key) ==
  /\ top_key \in DOMAIN extracted_data
  /\ schema[top_key].t = "obj" /\ extracted_data[top_key].t = "obj"

\* validated_data = self.invoice_schema.copy() copies the top level only: the
\* nested objects of validated_data are the nested objects of the schema, so
\* validated_data[key][sub_key] = sub_value writes into the schema.  This is
\* self.invoice_schema after the loop.
SchemaAfter(schema, extracted_data) ==
  [top_key \in DOMAIN schema |->
     IF BothObjects(schema, extracted_data, top_key)
     THEN Obj([sub_key \in DOMAIN schema[top_key].v |->
                 IF sub_key \in DOMAIN extracted_data[top_key].v
                 THEN extracted_data[top_key].v[sub_key]
                 ELSE schema[top_key].v[sub_key]])
     ELSE schema[top_key]]

\* validated_data as returned: a top-level top_key of the response that is not
\* merged is overwritten in the copy; every other top_key still holds the
\* schema's value, the nested objects as they are after the loop.
validate_and_clean_json(schema, extracted_data) ==
  [top_key \in DOMAIN schema |->
     IF top_key \in DOMAIN extracted_data /\ ~BothObjects(schema, extracted_data, top_key)
     THEN extracted_data[top_key]
     ELSE SchemaAfter(schema, extracted_data)[top_key]]

\* Parsed responses of the language model: any of an invoice number, a
\* seller (an object, possibly with a key the schema does not know, or a
\* plain text), and a key the schema does not know or an empty item list.
Merge(a, b) == [k \in DOMAIN a \cup DOMAIN b |-> IF k \in DOMAIN a THEN a[k] ELSE b[k]]

NumberParts ==
  { EmptyMap, [invoice_number |-> Str("INV1")], [invoice_number |-> Str("INV2")] }

SellerParts ==
  { EmptyMap,
    [seller |-> Obj([name |-> Str("Acme")])],
    [seller |-> Obj([name |-> Str("Bolt"), gstin |-> Str("G1"), website |-> Str("w")])],
    [seller |-> Str("Acme Ltd")] }

OtherParts == { EmptyMap, [vendor_name |-> Str("Acme")], [items |-> Arr(<< >>)] }

Responses ==
  { Merge(n, Merge(sp, o)) : n \in NumberParts, sp \in SellerParts, o \in OtherParts }

\* InvoicePDFProcessor(): a new processor instance
NewProcessor ==
  /\ invoice_schema' = InvoiceSchema
  /\ call' = [op |-> "InvoicePDFProcessor"]
  /\ UNCHANGED << progBatch, requests >>

\* process_file_path from the prompt on: the prompt carries the schema, the
\* response is reconciled with it, the result is returned.
ProcessFilePath ==
  /\ invoice_schema # NoSchema
  /\ \E llm_response \in Responses :
       /\ call' = [op |-> "process_file_path", response |-> llm_response,
                   prompt_schema |-> invoice_schema,
                   out |-> validate_and_clean_json(invoice_schema, llm_response)]
       /\ invoice_schema' = SchemaAfter(invoice_schema, llm_response)
  /\ UNCHANGED << progBatch, requests >>

NextSchema ==
  \/ NewProcessor
  \/ ProcessFilePath

SpecSchema == Init /\ [][NextSchema]_vars

\* ----------------------------------------------------------------- C21
Reconciled == call.op = "process_file_path"

\* C21: reconciliation leaves the processor's canonical schema as it was
\* built, so the prompt schema and the reconciled result of an attachment
\* are those a new processor gives for the same response, whatever was
\* reconciled before on the same instance.
C21_SchemaUnshared ==
  /\ invoice_schema \in {NoSchema, InvoiceSchema}
  /\ Reconciled =>
       /\ call.prompt_schema = InvoiceSchema
       /\ call.out = validate_and_clean_json(InvoiceSchema, call.response)

\* ----------------------------------------------------------------- C27
\* The value the claim gives sub-key sk of nested key k.
MergedSubValue(response, k, sk) ==
  IF k \in DOMAIN response /\ response[k].t = "obj" /\ sk \in DOMAIN response[k].v
  THEN response[k].v[sk]
  ELSE InvoiceSchema[k].v[sk]

\* C27: the reconciled result has exactly the schema's top-level keys; a key
\* whose schema value is an object holds an object with exactly the schema's
\* sub-keys, each taken from the response when it has it and empty
\* otherwise; a scalar or array key holds the response's value; a key the
\* response lacks holds the schema's empty default.
C27_OnlySchemaKeys ==
  Reconciled =>
    /\ DOMAIN call.out = DOMAIN InvoiceSchema
    /\ \A k \in DOMAIN InvoiceSchema :
         IF InvoiceSchema[k].t = "obj"
         THEN /\ call.out[k].t = "obj"
              /\ DOMAIN call.out[k].v = DOMAIN InvoiceSchema[k].v
              /\ \A sk \in DOMAIN InvoiceSchema[k].v :
                   call.out[k].v[sk] = MergedSubValue(call.response, k, sk)
         ELSE IF k \in DOMAIN call.response THEN call.out[k] = call.response[k]
         ELSE call.out[k] = InvoiceSchema[k]

\* ------------------------------------------------------- forced requests
\* Requests that carry force_reprocess = true: the upload view hands the flag
\* to process_from_excel_file; ProcessTextPDFsAPI.post (lines 67-88) skips
\* its own per-GRN test and calls process_single_grn for every GRN.
StartExcelForced(s, l) == StartExcel(s, l, TRUE)

StartGrnForced(g) == BeginGrn(g, TRUE)

NextForce ==
  \/ \E s \in SheetNames, l \in 1..MaxLimit : StartExcelForced(s, l)
  \/ \E g \in GrnIds : StartGrnForced(g)
  \/ CheckExcel
  \/ CheckGrn
  \/ Download
  \/ Analyze
  \/ Dispatch
  \/ Extract
  \/ SaveRecord
  \/ CreateItems
  \/ Commit
  \/ Cleanup
  \/ Return
  \/ FinishBatch

SpecForce == Init /\ [][NextForce]_vars

\* C22: when forceReprocess is true the existence check is skipped in both
\* orchestrator modes: every attachment the batch has gone through was
\* downloaded and handed to the classifier even when a row exists for its
\* key, and none is reported as already_processed.
C22_ForceSkipsGate ==
  force =>
    \A i \in 1..Len(audit) :
      /\ audit[i].fate # "already"
      /\ audit[i].downloaded
      /\ results[i].status # "already_processed"

\* ------------------------------------------------------ aggregate counts
BatchSucceeded == Returned /\ mode = "excel" /\ lastBatch.success

Entries(rs, ok) == { i \in 1..Len(rs) : rs[i].success = ok }

\* C28: every batch result returned with success = true satisfies
\* successful + failed = processed = length of the result list <= total
\* found, the entries with success = true are as many as the successful
\* count and the entries with success = false as many as the failed count.
C28_AggregateCounts ==
  BatchSucceeded =>
    /\ lastBatch.successful + lastBatch.failed = lastBatch.processed
    /\ lastBatch.processed = Len(lastBatch.results)
    /\ lastBatch.processed <= lastBatch.total_found
    /\ Cardinality(Entries(lastBatch.results, TRUE)) = lastBatch.successful
    /\ Cardinality(Entries(lastBatch.results, FALSE)) = lastBatch.failed

\* A returned batch with a skipped attachment next to a failed one.
C28_Witness ==
  /\ BatchSucceeded
  /\ lastBatch.successful >= 1 /\ lastBatch.failed >= 1
  /\ \E i \in 1..Len(lastBatch.results) :
       lastBatch.results[i].status = "already_processed"

\* ---------------------------------------------------- success and records
\* A completed row for the key of a result entry: its URL in spreadsheet
\* mode, its slot in GRN mode.
HasCompletedRow(entry) ==
  \E r \in 1..Len(store) :
    /\ store[r].processing_status = "completed"
    /\ IF mode = "excel" THEN store[r].attachment_url = entry.url
                         ELSE store[r].attachment_number = entry.attachment

\* C29: an attachment is reported with success = true in a returned batch
\* only if a completed row exists for its key at that moment; an attachment
\* whose only row has status failed is never reported as a success.
C29_SuccessMeansCompleted ==
  Returned =>
    \A i \in 1..Len(lastBatch.results) :
      lastBatch.results[i].success => HasCompletedRow(lastBatch.results[i])

\* ----------------------------------------------------------------- C24
PdfAnalyzed == call.op = "_analyze_pdf_content"

\* The stripped lengths of the sampled pages, summed.
RECURSIVE SampledLength(_, _)
SampledLength(pages, n) ==
  IF n = 0 THEN 0 ELSE SampledLength(pages, n - 1) + Len(StripText(pages[n]))

Sampled(doc) == IF Len(doc.pages) < 3 THEN Len(doc.pages) ELSE 3

\* The average of the sampled pages is strictly greater than 100.
AverageAbove100(doc) ==
  /\ doc.opens
  /\ Sampled(doc) > 0
  /\ SampledLength(doc.pages, Sampled(doc)) > 100 * Sampled(doc)

\* C24: a PDF is taken as text-based exactly when the total stripped text
\* length of its first min(3, page count) pages divided by the number of
\* sampled pages is strictly greater than 100; an average of exactly 100, a
\* PDF with zero pages and a PDF whose analysis raises are image-based.
C24_TextDensity ==
  /\ (call.op = "download_and_analyze" /\ call.out.detected_format = "PDF") =>
       /\ call.out.success
       /\ call.out.file_type = (IF AverageAbove100(call.response.pdf) THEN "pdf_text" ELSE "pdf_image")
  /\ PdfAnalyzed =>
       /\ call.out = AverageAbove100(call.doc)
       /\ ~call.doc.opens => ~call.out
       /\ (call.doc.opens /\ call.doc.pages = << >>) => ~call.out
       /\ ( /\ call.doc.opens /\ Sampled(call.doc) > 0
            /\ SampledLength(call.doc.pages, Sampled(call.doc)) = 100 * Sampled(call.doc) )
          => ~call.out

\* Three sampled pages of 0, 100 and 200 characters, an average of exactly
\* 100, in front of a fourth page full of text.
C24_Witness ==
  /\ PdfAnalyzed /\ call.doc.opens /\ Len(call.doc.pages) = 4
  /\ SampledLength(call.doc.pages, 3) = 300
  /\ Len(StripText(call.doc.pages[1])) = 0
  /\ Len(StripText(call.doc.pages[4])) = 200
  /\ ~call.out

\* ----------------------------------------------------------------- C23
Downloaded == call.op = "download_and_analyze"
Answered == Downloaded /\ call.response.status = "ok"

HasPrefix(s, p) == Len(s) >= Len(p) /\ \A k \in 1..Len(p) : s[k] = p[k]
HasSuffix(s, p) == Len(s) >= Len(p) /\ \A k \in 1..Len(p) : Lower(s[Len(s) - Len(p) + k]) = p[k]
Mentions(s, p) == \E i \in 0..(Len(s) - Len(p)) : \A k \in 1..Len(p) : Lower(s[i + k]) = p[k]

\* The format each of the three sources names, None when it names none.
Magic(content) ==
  CASE HasPrefix(content, << "%", "P", "D", "F" >>) -> "PDF"
    [] HasPrefix(content, << "FF", "D8", "FF" >>) -> "JPEG"
    [] HasPrefix(content, << "89", "P", "N", "G", "0D", "0A", "1A", "0A" >>) -> "PNG"
    [] OTHER -> None

Header(content_type) ==
  CASE Mentions(content_type, << "p", "d", "f" >>) -> "PDF"
    [] Mentions(content_type, << "j", "p", "e", "g" >>) -> "JPEG"
    [] Mentions(content_type, << "j", "p", "g" >>) -> "JPEG"
    [] Mentions(content_type, << "p", "n", "g" >>) -> "PNG"
    [] OTHER -> None

Suffix(url) ==
  CASE HasSuffix(url, << ".", "p", "d", "f" >>) -> "PDF"
    [] HasSuffix(url, << ".", "j", "p", "g" >>) -> "JPEG"
    [] HasSuffix(url, << ".", "j", "p", "e", "g" >>) -> "JPEG"
    [] HasSuffix(url, << ".", "p", "n", "g" >>) -> "PNG"
    [] OTHER -> None

\* C23: the format is decided by strict precedence byte signature >
\* content-type header > URL suffix: a recognised magic number decides
\* whatever the header and the URL say, the header decides only when no
\* signature matches, the URL suffix only when neither matches; when none of
\* the three matches the call fails and leaves no temporary file behind.
C23_FormatPrecedence ==
  Answered =>
    LET magic == Magic(call.response.content)
        header == Header(call.response.content_type)
        suffix == Suffix(call.url)
    IN /\ magic # None => call.out.detected_format = magic
       /\ (magic = None /\ header # None) => call.out.detected_format = header
       /\ (magic = None /\ header = None /\ suffix # None) =>
            call.out.detected_format = suffix
       /\ (magic = None /\ header = None /\ suffix = None) =>
            /\ ~call.out.success /\ call.out.detected_format = None
            /\ call.out.error # None
            /\ call.out.temp_file_path = None /\ tempFiles = {}

\* The three sources name three different formats.
C23_Witness ==
  /\ Answered
  /\ Magic(call.response.content) = "PDF"
  /\ Header(call.response.content_type) = "JPEG"
  /\ Suffix(call.url) = "PNG"
  /\ call.out.detected_format = "PDF" /\ call.out.original_extension = ".pdf"

\* ----------------------------------------------------------------- C25
\* C25: the UnsupportedFileType branch of the dispatch cannot be reached:
\* a classification with success = true has file type pdf_text, pdf_image or
\* image, never unknown, and a temporary file path; a classification with
\* success = false has no temporary file path.
C25_DispatchTotal ==
  Downloaded =>
    /\ call.out.success =>
         /\ call.out.file_type \in {"pdf_text", "pdf_image", "image"}
         /\ DispatchTarget(call.out.file_type) # "unsupported"
         /\ call.out.temp_file_path # None
         /\ call.out.temp_file_path \in tempFiles
    /\ ~call.out.success => call.out.temp_file_path = None

\* A call that fails after its temporary file was written: the bytes of a
\* JPEG that no image reader accepts.
C25_Witness ==
  /\ Answered /\ ~call.out.success
  /\ call.out.detected_format = "JPEG" /\ ~call.response.image_ok
  /\ call.out.temp_file_path = None /\ tempFiles = {}

\* ----------------------------------------------------------------- C26
TypeDetermined == call.op = "determine_document_type"

\* How many of the keywords occur in the text, whatever the case.
Occurring(keywords, text) ==
  Cardinality({ k \in 1..Len(keywords) : Mentions(text, keywords[k]) })

\* C26: the text is scored by counting, unweighted, how many PO keywords and
\* how many invoice keywords occur in it as case-insensitive substrings; the
\* strictly higher score wins and the patterns are consulted only on an
\* exact tie; on a tie the invoice-number patterns are checked first and give
\* invoice, then the PO-number patterns give po, otherwise unknown.
C26_ScoreThenPatterns ==
  TypeDetermined =>
    LET po == Occurring(PO_KEYWORDS, call.text)
        invoice == Occurring(INVOICE_KEYWORDS, call.text)
        lowered == LowerText(call.text)
    IN /\ po > invoice => call.out = "po"
       /\ invoice > po => call.out = "invoice"
       /\ (po = invoice /\ MatchesInvoicePatterns(lowered)) => call.out = "invoice"
       /\ (po = invoice /\ ~MatchesInvoicePatterns(lowered) /\ MatchesPoPatterns(lowered)) =>
            call.out = "po"
       /\ (po = invoice /\ ~MatchesInvoicePatterns(lowered) /\ ~MatchesPoPatterns(lowered)) =>
            call.out = "unknown"

\* A tied text that matches both pattern families.
C26_Witness ==
  /\ TypeDetermined
  /\ Occurring(PO_KEYWORDS, call.text) = Occurring(INVOICE_KEYWORDS, call.text)
  /\ MatchesInvoicePatterns(LowerText(call.text))
  /\ MatchesPoPatterns(LowerText(call.text))
  /\ call.out = "invoice"

\* ----------------------------------------------------- concurrent requests
\* Two or more upload requests served side by side.  Each request has its
\* own SimplifiedAttachmentProcessor and runs process_from_excel_file without
\* force_reprocess; the requests share the InvoiceData table and nothing
\* else.  A request moves in the steps between which another request can
\* run: the existence check (lines 70-76), the download, classification and
\* extraction (lines 89-90), and the write of its row (lines 358-429 for a
\* completed row, 513-531 for a failed one).  The code takes no lock and
\* does not repeat the check inside the transaction of the write.
MaxRequests == 2

\* Everything but the table and the requests.
besideRequests == << itemStore, tempFiles, run, mode, force, key, total, atts, idx,
                     pc, cls, data, txn, pending, results, succ, failed, lastBatch,
                     audit, cur, prevList, runStart, extractLog, call, invoice_schema >>

\* Rows the requests from the k-th on can still write.
RECURSIVE RowsToCome(_)
RowsToCome(k) ==
  IF k > Len(requests) THEN 0
  ELSE (Len(requests[k].attachments_to_process) + 1 - requests[k].idx) + RowsToCome(k + 1)

\* A request arrives: lines 43-64.
Arrive(s, l) ==
  /\ Len(requests) < MaxRequests
  /\ ExtractAttachments(Sheets[s]) # << >>
  /\ Len(store) + RowsToCome(1)
       + Len(AttachmentsToProcess(ExtractAttachments(Sheets[s]), l)) <= MaxStore
  /\ requests' = Append(requests,
       [ sheet |-> s,
         attachments_to_process |-> AttachmentsToProcess(ExtractAttachments(Sheets[s]), l),
         idx |-> 1, at |-> "check", extracted |-> FALSE, results |-> << >> ])
  /\ UNCHANGED << store, madeBy >>
  /\ UNCHANGED besideRequests

Current(q) == q.attachments_to_process[q.idx]

\* Lines 70-87 in request r: the existence check and its short cut.
CheckExisting(r) ==
  /\ requests[r].at = "check"
  /\ requests[r].idx <= Len(requests[r].attachments_to_process)
  /\ LET q == requests[r]
         existing == ExistingByUrl(store, Current(q).url)
     IN requests' =
          [requests EXCEPT ![r] =
             IF GateHit(FALSE, existing)
               THEN [q EXCEPT !.idx = q.idx + 1,
                              !.results = Append(q.results, AlreadyProcessed(Current(q), existing))]
               ELSE [q EXCEPT !.at = "process"]]
  /\ UNCHANGED << store, madeBy >>
  /\ UNCHANGED besideRequests

\* Lines 289-323 in request r: download, classify, extract; the environment
\* decides whether a text PDF is extracted or the download fails.
ProcessAttachment(r) ==
  /\ requests[r].at = "process"
  /\ \E extracted \in BOOLEAN :
       requests' = [requests EXCEPT ![r] = [@ EXCEPT !.at = "persist", !.extracted = extracted]]
  /\ UNCHANGED << store, madeBy >>
  /\ UNCHANGED besideRequests

\* The classification of a text PDF.
TextPdf == [NoCls EXCEPT !.success = TRUE, !.file_type = "pdf_text",
                         !.detected_format = "PDF", !.original_extension = ".pdf"]

\* Request r writes its row and goes on to its next attachment.
Persist(r) ==
  /\ requests[r].at = "persist"
  /\ LET q == requests[r]
         info == Current(q)
         row == IF q.extracted
                  THEN CompletedRecord(Len(store) + 1, "excel", info, TextPdf, ExtractedDoc(info.url))
                  ELSE ErrorRecordDirect(Len(store) + 1, info, MsgAnalyzing, "unknown", None)
         entry == IF q.extracted
                    THEN ResultEntry(info, TRUE, None, row.id, row.vendor_name,
                                     row.invoice_number, "pdf_text", None)
                    ELSE ResultEntry(info, FALSE, None, None, None, None, "unknown", MsgAnalyzing)
     IN /\ store' = Append(store, row)
        /\ madeBy' = Append(madeBy, [mode |-> "excel", src |-> q.sheet, request |-> r])
        /\ requests' = [requests EXCEPT ![r] =
                          [q EXCEPT !.at = "check", !.idx = q.idx + 1,
                                    !.extracted = FALSE,
                                    !.results = Append(q.results, entry)]]
  /\ UNCHANGED besideRequests

NextRequests ==
  \/ \E s \in SheetNames, l \in 1..MaxLimit : Arrive(s, l)
  \/ \E r \in 1..Len(requests) : CheckExisting(r)
  \/ \E r \in 1..Len(requests) : ProcessAttachment(r)
  \/ \E r \in 1..Len(requests) : Persist(r)

SpecRequests == Init /\ [][NextRequests]_vars

\* Request r has checked the row of its current attachment and not yet
\* written it.
BetweenCheckAndPersist(r) == requests[r].at \in {"process", "persist"}

RowsOf(url) == { k \in 1..Len(store) : store[k].attachment_url = url }

\* C30: when batch runs without forceReprocess execute side by side over
\* lists containing the same URL, at most one row is created for that URL,
\* and the check-then-persist sequence of one run for an attachment is never
\* interleaved with that of another run for the same attachment.
C30_OneRowPerUrl ==
  /\ \A url \in HttpUrls : Cardinality(RowsOf(url)) <= 1
  /\ \A r1, r2 \in 1..Len(requests) :
       (r1 # r2 /\ BetweenCheckAndPersist(r1) /\ BetweenCheckAndPersist(r2))
         => Current(requests[r1]).url # Current(requests[r2]).url

====
